---- MODULE Spec2Model ----
(***************************************************************************)
(* A model of the UFC statistics scraper (src/ufc_scraper, src/main.py).   *)
(*                                                                         *)
(* Representation of Python values                                         *)
(*   - a str is a sequence of tokens.  A token is one whitespace character *)
(*     (" " or "\n"), one other character, or a run of letters kept whole. *)
(*     The empty str is << >>.  The tokens between two whitespace tokens   *)
(*     make one word.                                                      *)
(*   - None, where a str is expected, is the one-token sequence None.      *)
(***************************************************************************)
EXTENDS Integers, Sequences, FiniteSets, TLC

VARIABLES
    wc_string,      \* normalize_weight_class: the argument
    wc_once,        \* normalize_weight_class(wc_string)
    wc_twice,       \* normalize_weight_class(normalize_weight_class(wc_string))
    wc_pc,          \* "call" -> "once" -> "twice"
    ef_response,    \* scrape_event_fights: what the fetch of event_url gives
    ef_date,        \* scrape_event_fights: the event_date argument
    ef_rows,        \* fight_rows, the rows the selector returned
    ef_i,           \* index of the next row of fight_rows
    ef_fights,      \* fights
    ef_pc,          \* "fetch" -> "loop" -> "done"
    fi_fights,      \* update_fighter_index: the all_fights_data argument
    fi_file,        \* the file config.FIGHTER_INDEX_FILE
    fi_old,         \* that file as it was when update_fighter_index was called
    fi_returned,    \* what update_fighter_index returned
    fi_pc,          \* "call" -> "saved" or "save failed"
    un_kind,        \* which parser is called: "height", "reach" or "weight"
    un_text,        \* its argument
    un_result,      \* what it returned
    un_pc,          \* "call" -> "done" or "raised"
    pf_url,         \* scrape_fighter_profile: fighter_url
    pf_page,        \* what get_soup answers
    pf_items,       \* info_list_items
    pf_i,           \* position of the loop over info_list_items
    pf_stats,       \* fighter_stats
    pf_pc,          \* "fetch" -> "info" -> "returned", "returned None", "raised"
    ev_page,        \* scrape_event_list: what get_soup answers
    ev_rows,        \* table_rows
    ev_i,           \* position of the loop over table_rows
    ev_events,      \* events
    ev_pc,          \* "fetch" -> "loop" -> "done"
    id_url,         \* parse_fighter_id_from_url: fighter_url
    id_result,      \* what it returned
    id_pc,          \* "call" -> "done"
    mn_events_file, \* main: the file config.EVENTS_FILE
    mn_fights_file, \* the file config.FIGHTS_FILE
    mn_index_file,  \* the file config.FIGHTER_INDEX_FILE
    mn_resp,        \* what the site answered to the last request
    mn_events,      \* events
    mn_i,           \* the event of the loop, from 1
    mn_all_fights,  \* all_fights
    mn_log,         \* the answers to the event-page requests of this run
    mn_fetches,     \* requests sent in this run
    mn_since,       \* seconds slept since the last request
    mn_pc,          \* "not run", then the place in main, "exited" or "completed"
    ap_data,        \* the training dataset: its winner and method labels, its feature columns
    ap_le,          \* le_dict: classes_ of the winner and of the method column
    ap_dir,         \* MODELS_DIR: the two model files and feature_names.pkl
    ap_app,         \* model_fight_winner, model_finish_prediction, feature_names
    ap_request,     \* the request of the current call of predict
    ap_response,    \* its response
    ap_invoked,     \* the classifiers it invoked
    ap_pc,          \* "dataset", "trained", "serving", "responded"
    rw_a_tags,      \* the a elements of cols[1] of one row
    rw_class,       \* the class attribute of the status icon, in markup order
    rw_winner,      \* winner
    rw_pc           \* "row", "done"

vars_wc == <<wc_string, wc_once, wc_twice, wc_pc>>
vars_ef == <<ef_response, ef_date, ef_rows, ef_i, ef_fights, ef_pc>>
vars_fi == <<fi_fights, fi_file, fi_old, fi_returned, fi_pc>>
vars_un == <<un_kind, un_text, un_result, un_pc>>
vars_pf == <<pf_url, pf_page, pf_items, pf_i, pf_stats, pf_pc>>
vars_ev == <<ev_page, ev_rows, ev_i, ev_events, ev_pc>>
vars_id == <<id_url, id_result, id_pc>>
vars_mn == <<mn_events_file, mn_fights_file, mn_index_file, mn_resp, mn_events, mn_i, mn_all_fights, mn_log, mn_fetches, mn_since, mn_pc>>
vars_ap == <<ap_data, ap_le, ap_dir, ap_app, ap_request, ap_response, ap_invoked, ap_pc>>
vars_rw == <<rw_a_tags, rw_class, rw_winner, rw_pc>>
vars == <<vars_wc, vars_ef, vars_fi, vars_un, vars_pf, vars_ev, vars_id, vars_mn, vars_ap, vars_rw>>

\* What the actions of one component leave alone.
OnlyWc ==
    UNCHANGED <<vars_ef, vars_fi, vars_un, vars_pf, vars_ev, vars_id, vars_mn, vars_ap, vars_rw>>
OnlyEf ==
    UNCHANGED <<vars_wc, vars_fi, vars_un, vars_pf, vars_ev, vars_id, vars_mn, vars_ap, vars_rw>>
OnlyFi ==
    UNCHANGED <<vars_wc, vars_ef, vars_un, vars_pf, vars_ev, vars_id, vars_mn, vars_ap, vars_rw>>
OnlyUn ==
    UNCHANGED <<vars_wc, vars_ef, vars_fi, vars_pf, vars_ev, vars_id, vars_mn, vars_ap, vars_rw>>
OnlyPf ==
    UNCHANGED <<vars_wc, vars_ef, vars_fi, vars_un, vars_ev, vars_id, vars_mn, vars_ap, vars_rw>>
OnlyEv ==
    UNCHANGED <<vars_wc, vars_ef, vars_fi, vars_un, vars_pf, vars_id, vars_mn, vars_ap, vars_rw>>
OnlyId ==
    UNCHANGED <<vars_wc, vars_ef, vars_fi, vars_un, vars_pf, vars_ev, vars_mn, vars_ap, vars_rw>>
OnlyMn ==
    UNCHANGED <<vars_wc, vars_ef, vars_fi, vars_un, vars_pf, vars_ev, vars_id, vars_ap, vars_rw>>
OnlyAp ==
    UNCHANGED <<vars_wc, vars_ef, vars_fi, vars_un, vars_pf, vars_ev, vars_id, vars_mn, vars_rw>>
OnlyRw ==
    UNCHANGED <<vars_wc, vars_ef, vars_fi, vars_un, vars_pf, vars_ev, vars_id, vars_mn, vars_ap>>

None == <<"<None>">>
NotYet == <<"<not computed>">>

----------------------------------------------------------------------------
(* src/ufc_scraper/utils.py : clean_text                                   *)

Whitespace == {" ", "\n"}

IsSpace(tok) == tok \in Whitespace

RECURSIVE Split(_)
\* str.split(): the words of the text, each the run of tokens between two
\* whitespace runs.
Split(text) ==
    IF text = << >> THEN << >>
    ELSE IF IsSpace(Head(text)) THEN Split(Tail(text))
    ELSE LET rest == Split(Tail(text))
         IN  IF Len(text) >= 2 /\ ~IsSpace(text[2])
             THEN <<<<Head(text)>> \o Head(rest)>> \o Tail(rest)
             ELSE <<<<Head(text)>>>> \o rest

RECURSIVE Join(_)
\* ' '.join(words)
Join(words) ==
    IF words = << >> THEN << >>
    ELSE IF Len(words) = 1 THEN Head(words)
         ELSE Head(words) \o <<" ">> \o Join(Tail(words))

clean_text(text) ==
    IF text = None THEN << >> ELSE Join(Split(text))

----------------------------------------------------------------------------
(* src/ufc_scraper/utils.py : normalize_weight_class                       *)

\* re.IGNORECASE: the case-folded form of a word.
Lower(w) ==
    CASE w \in {"Bout", "BOUT"}  -> "bout"
      [] w \in {"Title"}         -> "title"
      [] w \in {"Interim"}       -> "interim"
      [] w \in {"Catch"}         -> "catch"
      [] w \in {"Weight"}        -> "weight"
      [] w \in {"The"}           -> "the"
      [] w \in {"Ultimate"}      -> "ultimate"
      [] w \in {"Fighter"}       -> "fighter"
      [] w \in {"Tournament"}    -> "tournament"
      [] w \in {"Final"}         -> "final"
      [] w \in {"UFC", "Ufc"}    -> "ufc"
      [] OTHER                   -> w

\* `.` matches any character but a newline.
NoNewline(r) == \A k \in 1..Len(r) : r[k] # "\n"

\* r ends with the words "title bout" separated by one literal space.
EndsTitleBout(r) ==
    /\ Len(r) >= 3
    /\ Lower(r[Len(r) - 2]) = "title"
    /\ r[Len(r) - 1] = " "
    /\ Lower(r[Len(r)]) = "bout"

\* (Bout|Title Bout|Interim.*Title Bout|Catch Weight.*|The Ultimate
\*  Fighter.*Final|Tournament.*Final)$ matched against the whole of r.
BoutTypeAlt(r) ==
    \/ /\ Len(r) = 1
       /\ Lower(r[1]) = "bout"
    \/ /\ Len(r) = 3
       /\ EndsTitleBout(r)
    \/ /\ Len(r) >= 5
       /\ Lower(r[1]) = "interim"
       /\ EndsTitleBout(r)
       /\ NoNewline(SubSeq(r, 2, Len(r) - 3))
    \/ /\ Len(r) >= 3
       /\ Lower(r[1]) = "catch"
       /\ r[2] = " "
       /\ Lower(r[3]) = "weight"
       /\ NoNewline(SubSeq(r, 4, Len(r)))
    \/ /\ Len(r) >= 7
       /\ Lower(r[1]) = "the"
       /\ r[2] = " "
       /\ Lower(r[3]) = "ultimate"
       /\ r[4] = " "
       /\ Lower(r[5]) = "fighter"
       /\ Lower(r[Len(r)]) = "final"
       /\ NoNewline(SubSeq(r, 6, Len(r) - 1))
    \/ /\ Len(r) >= 3
       /\ Lower(r[1]) = "tournament"
       /\ Lower(r[Len(r)]) = "final"
       /\ NoNewline(SubSeq(r, 2, Len(r) - 1))

RECURSIVE SkipSpace(_, _)
\* The first position at or after i that holds no whitespace.
SkipSpace(s, i) ==
    IF i <= Len(s) /\ IsSpace(s[i]) THEN SkipSpace(s, i + 1) ELSE i

\* \s+(...)$ matches at position i: a whitespace run starts there and what
\* follows the run is one of the alternatives, up to the end of the string.
SuffixMatchAt(s, i) ==
    /\ IsSpace(s[i])
    /\ SkipSpace(s, i) <= Len(s)
    /\ BoutTypeAlt(SubSeq(s, SkipSpace(s, i), Len(s)))

\* Mutant of StripBoutSuffix: the shortest label is removed instead of the
\* leftmost match ("X Title Bout" keeps "X Title").
StripBoutSuffix_Rightmost(s) ==
    LET hits == {i \in 1..Len(s) : SuffixMatchAt(s, i)}
    IN  IF hits = {} THEN s
        ELSE LET last == CHOOSE i \in hits : \A j \in hits : j <= i
             IN  SubSeq(s, 1, last - 1)

\* re.sub(r'\s+(...)$', '', s, flags=re.IGNORECASE): the leftmost match is
\* removed; it reaches the end of the string, so there is no second one.
StripBoutSuffix(s) ==
    LET hits == {i \in 1..Len(s) : SuffixMatchAt(s, i)}
    IN  IF hits = {} THEN s
        ELSE LET first == CHOOSE i \in hits : \A j \in hits : i <= j
             IN  SubSeq(s, 1, first - 1)

\* re.sub(r'^UFC\s+', '', s, flags=re.IGNORECASE)
StripUfcPrefix(s) ==
    IF Len(s) >= 2 /\ Lower(s[1]) = "ufc" /\ IsSpace(s[2])
    THEN SubSeq(s, SkipSpace(s, 2), Len(s))
    ELSE s

normalize_weight_class(wc) ==
    IF wc = None THEN <<"Unknown">>
    ELSE LET s == StripUfcPrefix(StripBoutSuffix(clean_text(wc)))
         IN  IF s # << >> THEN clean_text(s) ELSE <<"Unknown">>

----------------------------------------------------------------------------
(* Inputs of normalize_weight_class: up to MaxPieces phrases of the site's *)
(* weight-class vocabulary, laid out with single spaces or with runs of    *)
(* whitespace around and between the words.                                *)

MaxPieces == 3

WcPhrases ==
    { <<"Lightweight">>, <<"Women's", "Strawweight">>, <<"UFC">>, <<"Ufc">>,
      <<"Bout">>, <<"BOUT">>, <<"Title", "Bout">>, <<"Interim">>,
      <<"Catch", "Weight">>, <<"The", "Ultimate", "Fighter">>,
      <<"Tournament">>, <<"Final">> }

RECURSIVE WordSeqs(_)
\* The word sequences made of at most n phrases.
WordSeqs(n) ==
    IF n = 0 THEN { << >> }
    ELSE WordSeqs(n - 1) \cup
         { p \o w : p \in WcPhrases, w \in WordSeqs(n - 1) }

RECURSIVE Interleave(_, _)
Interleave(words, sep) ==
    IF Len(words) <= 1 THEN words
    ELSE <<Head(words)>> \o sep \o Interleave(Tail(words), sep)

\* The text of the words with the separator between them and, when padded,
\* whitespace before and after.
Layout(words, sep, padded) ==
    IF padded THEN <<" ">> \o Interleave(words, sep) \o <<"\n">>
    ELSE Interleave(words, sep)

WcSeparators == { <<" ">>, <<"\n", " ">> }

WcInputs ==
    {None} \cup
    { Layout(w, sep, padded) :
        w \in WordSeqs(MaxPieces), sep \in WcSeparators, padded \in BOOLEAN }

InitWc ==
    /\ wc_string \in WcInputs
    /\ wc_once = NotYet
    /\ wc_twice = NotYet
    /\ wc_pc = "call"

IdleWc ==
    /\ wc_string = None
    /\ wc_once = NotYet
    /\ wc_twice = NotYet
    /\ wc_pc = "idle"

\* wc = normalize_weight_class(wc_string)
NormalizeOnce ==
    /\ wc_pc = "call"
    /\ wc_once' = normalize_weight_class(wc_string)
    /\ wc_pc' = "once"
    /\ UNCHANGED <<wc_string, wc_twice>>
    /\ OnlyWc

\* normalize_weight_class(wc), on the value the first call returned
NormalizeAgain ==
    /\ wc_pc = "once"
    /\ wc_twice' = normalize_weight_class(wc_once)
    /\ wc_pc' = "twice"
    /\ UNCHANGED <<wc_string, wc_once>>
    /\ OnlyWc

----------------------------------------------------------------------------
(* Claims about normalize_weight_class                                     *)

\* The words of the argument (none for None).
WcWords ==
    IF wc_string = None THEN << >>
    ELSE [k \in 1..Len(Split(wc_string)) |-> Split(wc_string)[k][1]]

\* A bout-type label, as a sequence of words compared case-insensitively:
\* "Bout", "Title Bout", "Interim ... Title Bout", "Catch Weight ...",
\* "The Ultimate Fighter ... Final", "Tournament ... Final".
IsBoutTypeLabel(ws) ==
    LET n == Len(ws)
        L(k) == Lower(ws[k])
    IN  \/ n = 1 /\ L(1) = "bout"
        \/ n = 2 /\ L(1) = "title" /\ L(2) = "bout"
        \/ n >= 3 /\ L(1) = "interim" /\ L(n - 1) = "title" /\ L(n) = "bout"
        \/ n >= 2 /\ L(1) = "catch" /\ L(2) = "weight"
        \/ n >= 4 /\ L(1) = "the" /\ L(2) = "ultimate" /\ L(3) = "fighter"
                  /\ L(n) = "final"
        \/ n >= 2 /\ L(1) = "tournament" /\ L(n) = "final"

\* The number of trailing words of ws that form the longest bout-type label
\* that leaves at least one word in front of it; 0 when there is none.
BoutLabelLen(ws) ==
    LET lens == {b \in 1..(Len(ws) - 1) :
                    IsBoutTypeLabel(SubSeq(ws, Len(ws) - b + 1, Len(ws)))}
    IN  IF lens = {} THEN 0
        ELSE CHOOSE b \in lens : \A c \in lens : c <= b

\* What C4 says the result is, in words.
C4_Expected ==
    LET kept == SubSeq(WcWords, 1, Len(WcWords) - BoutLabelLen(WcWords))
    IN  IF kept = << >> THEN <<"Unknown">>
        ELSE IF Len(kept) >= 2 /\ Lower(kept[1]) = "ufc" THEN Tail(kept)
             ELSE kept

\* C3 (as claimed): normalize_weight_class is idempotent, also on strings
\* with a repeated suffix or a repeated "UFC " prefix:
\* normalize_weight_class(normalize_weight_class(s)) = normalize_weight_class(s).
C3_Idempotent ==
    wc_pc = "twice" => wc_twice = wc_once

\* C4: the result is the whitespace-cleaned argument with its trailing
\* bout-type label removed (compared case-insensitively) and then a leading
\* "UFC " removed; a leading "Women's" stays; None or an empty result gives
\* "Unknown"; the result is never the empty string.
C4_NormalizeResult ==
    wc_pc = "once" =>
        /\ wc_once # << >>
        /\ wc_once = Interleave(C4_Expected, <<" ">>)
        /\ (wc_string = None \/ WcWords = << >>) => wc_once = <<"Unknown">>
        /\ (WcWords # << >> /\ WcWords[1] = "Women's") => wc_once[1] = "Women's"

\* C4 witness: a title bout of a women's class with a UFC prefix, laid out
\* with whitespace runs, has been normalized to the class alone.
C4_Witness ==
    /\ wc_pc = "once"
    /\ WcWords = <<"Ufc", "Women's", "Strawweight", "Title", "Bout">>
    /\ wc_string # Interleave(WcWords, <<" ">>)
    /\ wc_once = <<"Women's", " ", "Strawweight">>


----------------------------------------------------------------------------
(* src/ufc_scraper/scraper.py : scrape_event_fights                        *)
(*                                                                         *)
(* An href is a str whose tokens are the origin, the path prefix and the   *)
(* identifier.  A row of the event page is a record:                       *)
(*   data_link  the data-link attribute (NoAttr when the row has none)     *)
(*   ncols      the number of direct td children                           *)
(*   a_tags     the a elements of cols[1], each [text, href]               *)
(*   status     the class list of the i.b-fight-details__person-status     *)
(*              element of the first p of cols[0] (NoTag when absent)      *)
(*   wc_p       the text of p.b-fight-details__table-text in cols[6]       *)
(*   method, round, time   the text of cols[7], cols[8], cols[9]           *)

FIGHTER_STATS_BASE_URL == "http://ufcstats.com"

NoAttr == <<"<no attribute>">>
NoTag == {"<no tag>"}
NoText == <<"<no tag>">>
\* get_soup returns None on a request error.
NoSoup == [ok |-> FALSE, rows |-> << >>]
Soup(rows) == [ok |-> TRUE, rows |-> rows]

StatusBase == "b-fight-details__person-status"
StatusGreen == "b-fight-details__person-status_style_green"
StatusRed == "b-fight-details__person-status_style_red"
StatusBlue == "b-fight-details__person-status_style_blue"
StatusYellow == "b-fight-details__person-status_style_yellow"
StatusGray == "b-fight-details__person-status_style_gray"

\* str.startswith('http')
StartsWithHttp(href) ==
    Len(href) >= 1 /\ href[1] \in {"http://ufcstats.com", "https://ufcstats.com"}

\* `if x` on a str or None
Truthy(x) == x # None /\ x # << >>

\* (config.FIGHTER_STATS_BASE_URL + href)
\*     if href and not href.startswith('http') else href
ResolveUrl(href) ==
    IF Truthy(href) /\ ~StartsWithHttp(href)
    THEN <<FIGHTER_STATS_BASE_URL>> \o href
    ELSE href

\* fighterN_tag = fighter_a_tags[N-1] if len(fighter_a_tags) > N-1 else None
\* fighterN_name = utils.clean_text(fighterN_tag.get_text()) if fighterN_tag
\*                 else "N/A"
FighterName(a_tags, n) ==
    IF Len(a_tags) > n - 1 THEN clean_text(a_tags[n].text) ELSE <<"N/A">>

\* fighterN_href = fighterN_tag.get('href') if fighterN_tag else None
FighterHref(a_tags, n) ==
    IF Len(a_tags) > n - 1 THEN a_tags[n].href ELSE None

\* Mutant of ResolveWinner: the red and the blue branch swapped.
ResolveWinner_Swapped(status, fighter1_name, fighter2_name) ==
    IF status = NoTag THEN <<"N/A">>
    ELSE IF StatusGreen \in status THEN fighter1_name
    ELSE IF StatusBlue \in status THEN fighter2_name
    ELSE IF StatusRed \in status THEN <<"Draw">>
    ELSE IF StatusYellow \in status THEN <<"No", " ", "Contest">>
    ELSE <<"N/A">>

\* Mutant of ResolveWinner: a fixed corner label instead of the fighter's name.
ResolveWinner_Label(status, fighter1_name, fighter2_name) ==
    IF status = NoTag THEN <<"N/A">>
    ELSE IF StatusGreen \in status THEN <<"Fighter", " ", "1">>
    ELSE IF StatusRed \in status THEN <<"Fighter", " ", "2">>
    ELSE IF StatusBlue \in status THEN <<"Draw">>
    ELSE IF StatusYellow \in status THEN <<"No", " ", "Contest">>
    ELSE <<"N/A">>

\* Winner determination from the classes of fighter 1's status icon.
ResolveWinner(status, fighter1_name, fighter2_name) ==
    IF status = NoTag THEN <<"N/A">>
    ELSE IF StatusGreen \in status THEN fighter1_name
    ELSE IF StatusRed \in status THEN fighter2_name
    ELSE IF StatusBlue \in status THEN <<"Draw">>
    ELSE IF StatusYellow \in status THEN <<"No", " ", "Contest">>
    ELSE <<"N/A">>

\* weight_class_str = utils.clean_text(tag.get_text()) if tag else "Unknown"
\* normalized_wc = utils.normalize_weight_class(weight_class_str)
RowWeightClass(wc_p) ==
    normalize_weight_class(IF wc_p # NoText THEN clean_text(wc_p)
                           ELSE <<"Unknown">>)

\* The dict appended for a row with a data-link and at least 10 columns.
\* src is the position of the row in fight_rows (not a field of the dict).
FightRecord(row, src, event_date) ==
    [ fighter1_name     |-> FighterName(row.a_tags, 1),
      fighter1_url      |-> ResolveUrl(FighterHref(row.a_tags, 1)),
      fighter2_name     |-> FighterName(row.a_tags, 2),
      fighter2_url      |-> ResolveUrl(FighterHref(row.a_tags, 2)),
      winner            |-> ResolveWinner(row.status,
                                          FighterName(row.a_tags, 1),
                                          FighterName(row.a_tags, 2)),
      method            |-> clean_text(row.method),
      round             |-> clean_text(row.round),
      time              |-> clean_text(row.time),
      weight_class      |-> RowWeightClass(row.wc_p),
      fight_details_url |-> ResolveUrl(row.data_link),
      event_date        |-> event_date,
      src               |-> src ]

RECURSIVE SelectRows(_)
\* soup.select("tr.b-fight-details__table-row[data-link]"): the rows that
\* have the attribute, in document order.
SelectRows(rows) ==
    IF rows = << >> THEN << >>
    ELSE IF Head(rows).data_link # NoAttr
         THEN <<Head(rows)>> \o SelectRows(Tail(rows))
         ELSE SelectRows(Tail(rows))

\* Mutant of RowEmits: the column test is dropped.
RowEmits_NoColumnTest(row) ==
    Truthy(row.data_link)

\* if row.get('data-link'): ... if len(cols) < 10: continue
RowEmits(row) ==
    /\ Truthy(row.data_link)
    /\ ~(row.ncols < 10)

\* Mutant of AppendFight: the record is put in front.
AppendFight_Prepend(fights, rec) == <<rec>> \o fights

\* fights.append({...})
AppendFight(fights, rec) == Append(fights, rec)

----------------------------------------------------------------------------
(* Event pages given to scrape_event_fights: every page of one row over    *)
(* the full row vocabulary, and the pages of up to MaxRows rows over a     *)
(* small one; or no page at all (the fetch failed).                        *)

MaxRows == 3

HrefAbs(id) == <<"http://ufcstats.com", "/fighter-details/", id>>
HrefRel(id) == <<"/fighter-details/", id>>

LinkJones == [text |-> <<"\n", "Jon", " ", " ", "Jones", "\n">>,
              href |-> HrefAbs("a1")]
LinkKhabib == [text |-> <<"Khabib">>, href |-> HrefRel("b2")]
LinkBare == [text |-> << >>, href |-> None]

RECURSIVE SeqsUpTo(_, _)
\* The sequences of at most n elements of S.
SeqsUpTo(S, n) ==
    IF n = 0 THEN { << >> }
    ELSE SeqsUpTo(S, n - 1) \cup
         { <<x>> \o q : x \in S, q \in SeqsUpTo(S, n - 1) }

StatusStyles == {StatusGreen, StatusRed, StatusBlue, StatusYellow}

StatusLists ==
    {NoTag} \cup
    { {StatusBase} \cup c : c \in SUBSET (StatusStyles \cup {StatusGray}) }

DataLinkRel == <<"/fight-details/", "f1">>
DataLinkAbs == <<"http://ufcstats.com", "/fight-details/", "f2">>

RowsFull ==
    [ data_link : {NoAttr, << >>, DataLinkRel, DataLinkAbs},
      ncols     : {8, 10},
      a_tags    : SeqsUpTo({LinkJones, LinkKhabib, LinkBare}, 2),
      status    : StatusLists,
      wc_p      : {NoText, << >>, <<"\n", "Lightweight", " ", "Bout", "\n">>},
      method    : {<<"KO/TKO", "\n", "Punch">>},
      round     : {<<"\n", "2", "\n">>},
      time      : {<<"4:03">>} ]

RowsSmall ==
    [ data_link : {NoAttr, << >>, DataLinkRel, DataLinkAbs},
      ncols     : {8, 10},
      a_tags    : {<<LinkJones, LinkKhabib>>},
      status    : {{StatusBase, StatusGreen}},
      wc_p      : {<<"Lightweight", " ", "Bout">>},
      method    : {<<"KO/TKO", "\n", "Punch">>},
      round     : {<<"\n", "2", "\n">>},
      time      : {<<"4:03">>} ]

EventPages ==
    { <<r>> : r \in RowsFull } \cup SeqsUpTo(RowsSmall, MaxRows)

EventDates == { <<"March", " ", "05,", " ", "2022">>, <<"May", " ", "10,", " ", "2025">> }

InitEf ==
    /\ ef_response \in {NoSoup} \cup {Soup(page) : page \in EventPages}
    /\ ef_date \in EventDates
    /\ ef_rows = << >>
    /\ ef_i = 0
    /\ ef_fights = << >>
    /\ ef_pc = "fetch"

IdleEf ==
    /\ ef_response = NoSoup
    /\ ef_date = << >>
    /\ ef_rows = << >>
    /\ ef_i = 0
    /\ ef_fights = << >>
    /\ ef_pc = "idle"

\* soup = get_soup(event_url); if not soup: return []
EfFetchFailed ==
    /\ ef_pc = "fetch"
    /\ ef_response = NoSoup
    /\ ef_fights' = << >>
    /\ ef_pc' = "done"
    /\ UNCHANGED <<ef_response, ef_date, ef_rows, ef_i>>
    /\ OnlyEf

\* fights = []; fight_rows = soup.select(...)
EfSelectRows ==
    /\ ef_pc = "fetch"
    /\ ef_response # NoSoup
    /\ ef_fights' = << >>
    /\ ef_rows' = SelectRows(ef_response.rows)
    /\ ef_i' = 1
    /\ ef_pc' = "loop"
    /\ UNCHANGED <<ef_response, ef_date>>
    /\ OnlyEf

\* One pass of `for row in fight_rows` that reaches fights.append.
EfAppendRow ==
    /\ ef_pc = "loop"
    /\ ef_i <= Len(ef_rows)
    /\ RowEmits(ef_rows[ef_i])
    /\ ef_fights' = AppendFight(ef_fights,
                                FightRecord(ef_rows[ef_i], ef_i, ef_date))
    /\ ef_i' = ef_i + 1
    /\ UNCHANGED <<ef_response, ef_date, ef_rows, ef_pc>>
    /\ OnlyEf

\* One pass of the loop that appends nothing: the data-link is empty or the
\* row has fewer than 10 columns.
EfSkipRow ==
    /\ ef_pc = "loop"
    /\ ef_i <= Len(ef_rows)
    /\ ~RowEmits(ef_rows[ef_i])
    /\ ef_i' = ef_i + 1
    /\ UNCHANGED <<ef_response, ef_date, ef_rows, ef_fights, ef_pc>>
    /\ OnlyEf

\* return fights
EfReturn ==
    /\ ef_pc = "loop"
    /\ ef_i > Len(ef_rows)
    /\ ef_pc' = "done"
    /\ UNCHANGED <<ef_response, ef_date, ef_rows, ef_i, ef_fights>>
    /\ OnlyEf

NextEf ==
    \/ EfFetchFailed
    \/ EfSelectRows
    \/ EfAppendRow
    \/ EfSkipRow
    \/ EfReturn

----------------------------------------------------------------------------
(* Claims about scrape_event_fights                                        *)

\* The style classes on the status icon of the row a record was made from.
StylesOf(f) == ef_rows[f.src].status \cap StatusStyles

HasIcon(f) == ef_rows[f.src].status # NoTag

\* C1: in every emitted record the winner follows from the status classes of
\* fighter 1's icon: green gives fighter 1's name; red, blue or yellow as the
\* icon's status class gives fighter 2's name, "Draw", "No Contest"; an icon
\* that is missing or carries none of the four gives "N/A".
C1_WinnerFromStatus ==
    \A k \in 1..Len(ef_fights) :
        LET f == ef_fights[k]
        IN  /\ (HasIcon(f) /\ StatusGreen \in StylesOf(f))
                  => f.winner = f.fighter1_name
            /\ (HasIcon(f) /\ StylesOf(f) = {StatusRed})
                  => f.winner = f.fighter2_name
            /\ (HasIcon(f) /\ StylesOf(f) = {StatusBlue})
                  => f.winner = <<"Draw">>
            /\ (HasIcon(f) /\ StylesOf(f) = {StatusYellow})
                  => f.winner = <<"No", " ", "Contest">>
            /\ (~HasIcon(f) \/ StylesOf(f) = {})
                  => f.winner = <<"N/A">>

\* C1 witness: a record of a red icon was emitted whose winner is fighter 2,
\* a fighter with another name than fighter 1.
C1_Witness ==
    /\ ef_pc = "done"
    /\ \E k \in 1..Len(ef_fights) :
          /\ HasIcon(ef_fights[k])
          /\ StylesOf(ef_fights[k]) = {StatusRed}
          /\ ef_fights[k].winner = <<"Khabib">>
          /\ ef_fights[k].fighter1_name = <<"Jon", " ", "Jones">>

WinnerSentinels == { <<"Draw">>, <<"No", " ", "Contest">>, <<"N/A">> }

\* C2: in every emitted record, whatever links and status classes the row
\* has, the winner is the record's fighter1_name, its fighter2_name, "Draw",
\* "No Contest" or "N/A".
C2_WinnerDomain ==
    \A k \in 1..Len(ef_fights) :
        ef_fights[k].winner \in
            {ef_fights[k].fighter1_name, ef_fights[k].fighter2_name}
                \cup WinnerSentinels

\* C2 witness: a record of a row without a second fighter link and with a red
\* icon was emitted; its winner is the placeholder name of fighter 2.
C2_Witness ==
    /\ ef_pc = "done"
    /\ \E k \in 1..Len(ef_fights) :
          /\ Len(ef_rows[ef_fights[k].src].a_tags) = 1
          /\ StylesOf(ef_fights[k]) = {StatusRed, StatusYellow}
          /\ ef_fights[k].fighter1_name = <<"Khabib">>
          /\ ef_fights[k].winner = <<"N/A">>

RECURSIVE QualifyingRows(_)
\* The rows of the page that carry a fight-detail link (a data-link with a
\* value) and have at least 10 columns, in document order.
QualifyingRows(page) ==
    IF page = << >> THEN << >>
    ELSE IF /\ Head(page).data_link \notin {NoAttr, << >>}
            /\ Head(page).ncols >= 10
         THEN <<Head(page)>> \o QualifyingRows(Tail(page))
         ELSE QualifyingRows(Tail(page))

----------------------------------------------------------------------------
(* src/ufc_scraper/data_manager.py : save_json, load_json                  *)
(*                                                                         *)
(* A JSON file is a record: state "absent" (no such file), "ok" (data is   *)
(* what json.dump wrote) or "truncated" (opened for writing and not        *)
(* written out: the IOError came after open()).                            *)

AbsentFile(empty) == [state |-> "absent", data |-> empty]

\* save_json(data, filepath) when no IOError is raised: the file holds data.
Written(data) == [state |-> "ok", data |-> data]

\* save_json(data, filepath): what the file may be afterwards.  An IOError
\* is caught and printed; the file is then as it was (open() failed) or
\* truncated (the write failed).
save_json(data, file) ==
    { Written(data),
      file,
      [state |-> "truncated", data |-> file.data] }

\* load_json(filepath): None for a missing or undecodable file.
JsonLoads(file) == file.state = "ok"

----------------------------------------------------------------------------
(* src/ufc_scraper/fighter_organizer.py : update_fighter_index             *)
(*                                                                         *)
(* An index is a function from weight classes to lists of                  *)
(* [name, url] records; a dict key that is absent is outside its domain.   *)

KeyMissing == <<"<missing key>">>

EmptyIndex == [wc \in {} |-> << >>]

\* The order of str on the names of the model: "" < "Adams" < "Brown" <
\* "Cruz" < "Dern" < "N/A" < "Zed" (code points, left to right).
NameOrder == << << >>, <<"Adams">>, <<"Brown">>, <<"Cruz">>, <<"Dern">>,
                <<"N/A">>, <<"Zed">> >>

NameRank(name) == CHOOSE r \in 1..Len(NameOrder) : NameOrder[r] = name

\* wc = fight.get("weight_class", "Unknown")
\* if wc == "N/A" or not wc: wc = "Unknown"
FightWeightClass(fight) ==
    LET wc == IF fight.weight_class = KeyMissing THEN <<"Unknown">>
              ELSE fight.weight_class
    IN  IF wc = <<"N/A">> \/ ~Truthy(wc) THEN <<"Unknown">> ELSE wc

\* fighters_in_fight
FightersInFight(fight) ==
    << [name |-> fight.fighter1_name, url |-> fight.fighter1_url],
       [name |-> fight.fighter2_name, url |-> fight.fighter2_url] >>

\* Mutant of IsIndexable: the URL is not looked at.
IsIndexable_AnyUrl(fighter) ==
    /\ Truthy(fighter.name)
    /\ fighter.name # <<"N/A">>

\* if fighter["name"] and fighter["name"] != "N/A" and fighter["url"]
IsIndexable(fighter) ==
    /\ Truthy(fighter.name)
    /\ fighter.name # <<"N/A">>
    /\ Truthy(fighter.url)

\* defaultdict: the value under wc, the default when the key is absent.
DictGet(d, wc, default) == IF wc \in DOMAIN d THEN d[wc] ELSE default

DictPut(d, wc, value) ==
    [k \in DOMAIN d \cup {wc} |-> IF k = wc THEN value ELSE d[k]]

\* Mutant of AddFighter: the test against unique_fighters_in_class is gone.
AddFighter_NoDedup(st, wc, fighter) ==
    IF IsIndexable(fighter)
    THEN [ unique |-> st.unique,
           index  |-> DictPut(st.index, wc,
                              Append(DictGet(st.index, wc, << >>), fighter)) ]
    ELSE st

\* The body of `for fighter in fighters_in_fight`; st holds
\* unique_fighters_in_class and fighter_index.
AddFighter(st, wc, fighter) ==
    LET fighter_tuple == <<fighter.name, fighter.url>>
    IN  IF /\ IsIndexable(fighter)
           /\ fighter_tuple \notin DictGet(st.unique, wc, {})
        THEN [ unique |-> DictPut(st.unique, wc,
                             DictGet(st.unique, wc, {}) \cup {fighter_tuple}),
               index  |-> DictPut(st.index, wc,
                             Append(DictGet(st.index, wc, << >>),
                                    [name |-> fighter.name,
                                     url |-> fighter.url])) ]
        ELSE st

\* The body of `for fight in all_fights_data`.
AddFight(st, fight) ==
    LET wc == FightWeightClass(fight)
        fs == FightersInFight(fight)
    IN  AddFighter(AddFighter(st, wc, fs[1]), wc, fs[2])

RECURSIVE FoldFights(_, _)
FoldFights(st, fights) ==
    IF fights = << >> THEN st
    ELSE FoldFights(AddFight(st, Head(fights)), Tail(fights))

RECURSIVE InsertByName(_, _)
\* x placed behind every entry whose name is not greater than its own.
InsertByName(x, sorted) ==
    IF sorted = << >> THEN <<x>>
    ELSE IF NameRank(Head(sorted).name) <= NameRank(x.name)
         THEN <<Head(sorted)>> \o InsertByName(x, Tail(sorted))
         ELSE <<x>> \o sorted

RECURSIVE SortFrom(_, _)
SortFrom(sorted, rest) ==
    IF rest = << >> THEN sorted
    ELSE SortFrom(InsertByName(Head(rest), sorted), Tail(rest))

\* Mutant of SortedByName: the list is left in insertion order.
SortedByName_Unsorted(list) == list

\* sorted(list, key=lambda x: x['name']): ascending and stable.
SortedByName(list) == SortFrom(<< >>, list)

\* Mutant of BuildIndex: the fold starts from the index loaded from the file
\* (an incremental merge).
BuildIndex_Merge(all_fights_data, file) ==
    LET loaded == IF JsonLoads(file) THEN file.data ELSE EmptyIndex
        st == FoldFights([unique |-> EmptyIndex, index |-> loaded],
                         all_fights_data)
    IN  [wc \in DOMAIN st.index |-> SortedByName(st.index[wc])]

\* update_fighter_index up to the save: the fold from two empty defaultdicts
\* and the sort of every list.  The file is not read.
BuildIndex(all_fights_data, file) ==
    LET st == FoldFights([unique |-> EmptyIndex, index |-> EmptyIndex],
                         all_fights_data)
    IN  [wc \in DOMAIN st.index |-> SortedByName(st.index[wc])]

\* data_manager.save_fighter_index(dict(fighter_index))
save_fighter_index(index, file) == save_json(index, file)

----------------------------------------------------------------------------
(* Fight collections given to update_fighter_index: up to MaxFights fights *)
(* over two real classes of names, placeholders and missing weight classes.*)

MaxFights == 2

Url(id) == <<"http://ufcstats.com", "/fighter-details/", id>>

Fighter(name, url) == [name |-> name, url |-> url]

Corner1 ==
    { Fighter(<<"Brown">>, Url("u1")), Fighter(<<"N/A">>, None),
      Fighter(<< >>, Url("u5")), Fighter(<<"Dern">>, << >>) }

Corner2 ==
    { Fighter(<<"Brown">>, Url("u3")), Fighter(<<"Adams">>, Url("u2")),
      Fighter(<<"Cruz">>, Url("u4")) }

IndexFights ==
    { [ weight_class  |-> wc,
        fighter1_name |-> a.name, fighter1_url |-> a.url,
        fighter2_name |-> b.name, fighter2_url |-> b.url ] :
      wc \in {<<"Lightweight">>, <<"N/A">>, << >>, KeyMissing},
      a \in Corner1, b \in Corner2 }

\* An index left by an earlier run, with a fighter and a class that no fight
\* of the model has.
OldIndex ==
    (<<"Lightweight">> :> <<Fighter(<<"Zed">>, Url("u9"))>>) @@
    (<<"Heavyweight">> :> <<Fighter(<<"Zed">>, Url("u9"))>>)

InitFi ==
    /\ fi_fights \in SeqsUpTo(IndexFights, MaxFights)
    /\ fi_file \in {AbsentFile(EmptyIndex), [state |-> "ok", data |-> OldIndex]}
    /\ fi_old = fi_file
    /\ fi_returned = EmptyIndex
    /\ fi_pc = "call"

IdleFi ==
    /\ fi_fights = << >>
    /\ fi_file = AbsentFile(EmptyIndex)
    /\ fi_old = AbsentFile(EmptyIndex)
    /\ fi_returned = EmptyIndex
    /\ fi_pc = "idle"

\* update_fighter_index(all_fights_data), the index written to the file.
UpdateIndexSaved ==
    /\ fi_pc = "call"
    /\ fi_returned' = BuildIndex(fi_fights, fi_file)
    /\ fi_file' \in save_fighter_index(fi_returned', fi_file)
    /\ fi_file'.state = "ok" /\ fi_file'.data = fi_returned'
    /\ fi_pc' = "saved"
    /\ UNCHANGED <<fi_fights, fi_old>>
    /\ OnlyFi

\* update_fighter_index(all_fights_data), save_json catching an IOError.
UpdateIndexSaveFailed ==
    /\ fi_pc = "call"
    /\ fi_returned' = BuildIndex(fi_fights, fi_file)
    /\ fi_file' \in save_fighter_index(fi_returned', fi_file)
    /\ ~(fi_file'.state = "ok" /\ fi_file'.data = fi_returned')
    /\ fi_pc' = "save failed"
    /\ UNCHANGED <<fi_fights, fi_old>>
    /\ OnlyFi

NextFi ==
    \/ UpdateIndexSaved
    \/ UpdateIndexSaveFailed

----------------------------------------------------------------------------
(* Claims about update_fighter_index                                       *)

\* The weight class a fight counts for: its own, "Unknown" when it has none.
ClassOf(fight) ==
    IF fight.weight_class \in {KeyMissing, None, << >>, <<"N/A">>}
    THEN <<"Unknown">>
    ELSE fight.weight_class

\* The (name, URL) pairs of a fight that name a fighter: the name is not a
\* placeholder and there is a URL.
FighterPairs(fight) ==
    { pair \in { <<fight.fighter1_name, fight.fighter1_url>>,
                 <<fight.fighter2_name, fight.fighter2_url>> } :
        /\ pair[1] \notin {None, << >>, <<"N/A">>}
        /\ pair[2] \notin {None, << >>} }

\* The fighters that fought in weight class wc, over the fights passed in.
FoughtIn(wc) ==
    UNION { FighterPairs(fi_fights[k]) :
              k \in {j \in 1..Len(fi_fights) : ClassOf(fi_fights[j]) = wc} }

PairsOf(list) == { <<list[k].name, list[k].url>> : k \in 1..Len(list) }

\* C6: in the returned index every weight-class list has no two entries with
\* the same (name, URL), holds exactly the (name, URL) pairs of the fighters
\* that fought in that class, and is in non-decreasing order of name.
C6_IndexLists ==
    fi_pc \in {"saved", "save failed"} =>
        /\ DOMAIN fi_returned = {ClassOf(fi_fights[k]) : k \in
               {j \in 1..Len(fi_fights) : FighterPairs(fi_fights[j]) # {}}}
        /\ \A wc \in DOMAIN fi_returned :
              LET list == fi_returned[wc]
              IN  /\ \A i, j \in 1..Len(list) :
                        (i # j) => <<list[i].name, list[i].url>> #
                                   <<list[j].name, list[j].url>>
                  /\ PairsOf(list) = FoughtIn(wc)
                  /\ \A i, j \in 1..Len(list) :
                        (i < j) => NameRank(list[i].name) <= NameRank(list[j].name)

\* C6 witness: two lightweight fights that share Brown gave the three
\* distinct fighters in name order, though Cruz was met before Adams.
C6_Witness ==
    /\ fi_pc = "saved"
    /\ Len(fi_fights) = 2
    /\ fi_fights[1].fighter2_name = <<"Cruz">>
    /\ fi_fights[2].fighter1_name = <<"Brown">>
    /\ <<"Lightweight">> \in DOMAIN fi_returned
    /\ fi_returned[<<"Lightweight">>] =
          << Fighter(<<"Adams">>, Url("u2")), Fighter(<<"Brown">>, Url("u1")),
             Fighter(<<"Cruz">>, Url("u4")) >>

\* C7: update_fighter_index rebuilds the index from the fights passed in:
\* whatever index the file held before, the index returned is the one an
\* empty file gives for the same fights, a successful save leaves exactly
\* that index in the file, and every entry of it comes from those fights.
C7_FullRebuild ==
    fi_pc \in {"saved", "save failed"} =>
        /\ fi_returned = BuildIndex(fi_fights, AbsentFile(EmptyIndex))
        /\ fi_pc = "saved" => fi_file = [state |-> "ok", data |-> fi_returned]
        /\ \A wc \in DOMAIN fi_returned : PairsOf(fi_returned[wc]) \subseteq FoughtIn(wc)

\* C7 witness: the file held an index with Zed under Lightweight and under
\* Heavyweight; after a run over lightweight fights it holds a Lightweight
\* list without Zed and no Heavyweight list.
C7_Witness ==
    /\ fi_pc = "saved"
    /\ fi_old = [state |-> "ok", data |-> OldIndex]
    /\ DOMAIN fi_file.data = {<<"Lightweight">>}
    /\ PairsOf(fi_file.data[<<"Lightweight">>]) =
          { <<<<"Brown">>, Url("u1")>>, <<<<"Cruz">>, Url("u4")>> }

\* A fighter of a fight, as (name, URL), and whether it is a placeholder.
C18_Corners(fight) ==
    { Fighter(fight.fighter1_name, fight.fighter1_url),
      Fighter(fight.fighter2_name, fight.fighter2_url) }

C18_Placeholder(fighter) ==
    \/ fighter.name \in {None, << >>, <<"N/A">>}
    \/ fighter.url \in {None, << >>}

C18_NoClass == {KeyMissing, None, << >>, <<"N/A">>}

\* The entries of an index.
C18_Entries(index) ==
    UNION { { index[wc][k] : k \in 1..Len(index[wc]) } : wc \in DOMAIN index }

\* C18: update_fighter_index never indexes a placeholder fighter: a fighter
\* whose name is empty or "N/A", or whose URL is null or empty, is in no
\* weight-class list; a fight whose weight class is missing, empty or "N/A"
\* gives its fighters to the class "Unknown", and the index has no
\* empty-string and no "N/A" key.
C18_NoPlaceholders ==
    fi_pc \in {"saved", "save failed"} =>
        /\ \A fighter \in C18_Entries(fi_returned) : ~C18_Placeholder(fighter)
        /\ DOMAIN fi_returned \cap C18_NoClass = {}
        /\ \A k \in 1..Len(fi_fights) :
               fi_fights[k].weight_class \in C18_NoClass =>
                   \A fighter \in C18_Corners(fi_fights[k]) :
                       ~C18_Placeholder(fighter) =>
                           /\ <<"Unknown">> \in DOMAIN fi_returned
                           /\ \E j \in 1..Len(fi_returned[<<"Unknown">>]) :
                                  fi_returned[<<"Unknown">>][j] = fighter
        /\ fi_pc = "saved" =>
               /\ \A fighter \in C18_Entries(fi_file.data) :
                      ~C18_Placeholder(fighter)
               /\ DOMAIN fi_file.data \cap C18_NoClass = {}

\* A fight without weight class between Dern, who has no URL, and Adams, and
\* an "N/A" fight between a missing fighter and Cruz: the index is the class
\* Unknown with Adams and Cruz.
C18_Witness ==
    /\ fi_pc = "saved"
    /\ Len(fi_fights) = 2
    /\ fi_fights[1].weight_class = KeyMissing
    /\ fi_fights[1].fighter1_name = <<"Dern">>
    /\ fi_fights[1].fighter1_url = << >>
    /\ fi_fights[2].weight_class = <<"N/A">>
    /\ fi_fights[2].fighter1_name = <<"N/A">>
    /\ fi_fights[2].fighter1_url = None
    /\ fi_file.data =
           (<<"Unknown">> :> << Fighter(<<"Adams">>, Url("u2")),
                                Fighter(<<"Cruz">>, Url("u4")) >>)

----------------------------------------------------------------------------
(* src/ufc_scraper/utils.py : parse_height_to_cm, parse_reach_to_cm,       *)
(* parse_weight_to_lbs                                                     *)
(*                                                                         *)
(* The argument is a str of one-character tokens; the tokens "lbs.", "inf" *)
(* and "nan" stand for those letters in a row.  A value returned is a      *)
(* record: None, an int, a float num / 10^scale, inf or nan.               *)

NoneValue == [tag |-> "None"]
IntValue(n) == [tag |-> "int", val |-> n]
FloatValue(num, scale) == [tag |-> "float", num |-> num, scale |-> scale]
InfValue(negative) == [tag |-> "inf", negative |-> negative]
NanValue == [tag |-> "nan"]
ValueError == [tag |-> "ValueError"]
OverflowError == [tag |-> "OverflowError"]

DigitChars == {"0", "1", "2", "3", "4", "5", "6", "7", "8", "9"}

DigitOf(c) ==
    CASE c = "0" -> 0 [] c = "1" -> 1 [] c = "2" -> 2 [] c = "3" -> 3
      [] c = "4" -> 4 [] c = "5" -> 5 [] c = "6" -> 6 [] c = "7" -> 7
      [] c = "8" -> 8 [] c = "9" -> 9

AllDigits(s) == \A k \in 1..Len(s) : s[k] \in DigitChars

RECURSIVE DecimalOf(_)
\* The number a digit string writes.
DecimalOf(s) ==
    IF s = << >> THEN 0
    ELSE 10 * DecimalOf(SubSeq(s, 1, Len(s) - 1)) + DigitOf(s[Len(s)])

RECURSIVE Pow10(_)
Pow10(k) == IF k = 0 THEN 1 ELSE 10 * Pow10(k - 1)

\* c in s
HasChar(s, c) == \E k \in 1..Len(s) : s[k] = c

\* '--' in s
HasDoubleDash(s) == \E k \in 1..(Len(s) - 1) : s[k] = "-" /\ s[k + 1] = "-"

\* s.replace(c, '')
RemoveChar(s, c) == SelectSeq(s, LAMBDA t : t # c)

\* old occurs in s at position k
OccursAt(s, old, k) ==
    k + Len(old) - 1 <= Len(s) /\ SubSeq(s, k, k + Len(old) - 1) = old

RECURSIVE Replace(_, _)
\* s.replace(old, ''), old not empty: the occurrences of old are cut out,
\* left to right.
Replace(s, old) ==
    IF s = << >> THEN << >>
    ELSE IF OccursAt(s, old, 1)
         THEN Replace(SubSeq(s, Len(old) + 1, Len(s)), old)
         ELSE <<Head(s)>> \o Replace(Tail(s), old)

RECURSIVE SplitOn(_, _)
\* s.split(c): the parts between the occurrences of c, empty parts kept.
SplitOn(s, c) ==
    IF ~HasChar(s, c) THEN <<s>>
    ELSE LET k == CHOOSE i \in 1..Len(s) :
                     s[i] = c /\ \A j \in 1..(i - 1) : s[j] # c
         IN  <<SubSeq(s, 1, k - 1)>> \o SplitOn(SubSeq(s, k + 1, Len(s)), c)

\* int(s): an optional sign and at least one digit, else ValueError.
PyInt(s) ==
    LET signed == Len(s) >= 1 /\ s[1] = "-"
        digits == IF signed THEN Tail(s) ELSE s
    IN  IF digits # << >> /\ AllDigits(digits)
        THEN IntValue(IF signed THEN 0 - DecimalOf(digits) ELSE DecimalOf(digits))
        ELSE ValueError

\* float(s): an optional sign, then digits with an optional point, or inf,
\* or nan; else ValueError.
PyFloat(s) ==
    LET signed == Len(s) >= 1 /\ s[1] = "-"
        body == IF signed THEN Tail(s) ELSE s
        parts == SplitOn(body, ".")
        sgn(n) == IF signed THEN 0 - n ELSE n
    IN  IF body = <<"inf">> THEN InfValue(signed)
        ELSE IF body = <<"nan">> THEN NanValue
        ELSE IF Len(parts) = 1 /\ body # << >> /\ AllDigits(body)
             THEN FloatValue(sgn(DecimalOf(body)), 0)
        ELSE IF /\ Len(parts) = 2
                /\ AllDigits(parts[1]) /\ AllDigits(parts[2])
                /\ parts[1] \o parts[2] # << >>
             THEN FloatValue(sgn(DecimalOf(parts[1] \o parts[2])), Len(parts[2]))
        ELSE ValueError

\* Mutant of RoundHalfEven: the fraction is cut off.
RoundHalfEven_Floor(num, den) == num \div den

\* round(num / den) for den > 0: the nearest integer, the even one of the two
\* when num / den lies half way.
RoundHalfEven(num, den) ==
    LET q == num \div den
        r == num % den
    IN  IF 2 * r < den THEN q
        ELSE IF 2 * r > den THEN q + 1
        ELSE IF q % 2 = 0 THEN q ELSE q + 1

\* round(inches * 2.54) for inches = num / 10^scale; 2.54 = 127 / 50.
RoundCm(num, scale) == RoundHalfEven(127 * num, 50 * Pow10(scale))

parse_height_to_cm(height_str) ==
    IF ~Truthy(height_str) \/ HasDoubleDash(height_str) THEN NoneValue
    ELSE
    LET hs == RemoveChar(height_str, " ")
        parts == SplitOn(RemoveChar(hs, "\""), "'")
        first == PyInt(parts[1])
    IN  IF Len(parts) = 2
        THEN LET second == IF parts[2] # << >> THEN PyInt(parts[2])
                           ELSE IntValue(0)
             IN  IF first = ValueError \/ second = ValueError THEN NoneValue
                 ELSE IntValue(RoundCm(first.val * 12 + second.val, 0))
        ELSE IF Len(parts) = 1 /\ parts[1] # << >>
        THEN IF HasChar(hs, "'") /\ ~HasChar(hs, "\"")
             THEN IF first = ValueError THEN NoneValue
                  ELSE IntValue(RoundCm(first.val * 12, 0))
             ELSE IF HasChar(hs, "\"")
             THEN IF first = ValueError THEN NoneValue
                  ELSE IntValue(RoundCm(first.val, 0))
             ELSE NoneValue
        ELSE NoneValue

\* The value returned, or OverflowError: round() of an infinite float raises
\* it and the function catches ValueError only.
parse_reach_to_cm(reach_str) ==
    IF ~Truthy(reach_str) \/ HasDoubleDash(reach_str) THEN NoneValue
    ELSE
    LET inches == PyFloat(RemoveChar(RemoveChar(reach_str, " "), "\""))
    IN  IF inches = ValueError THEN NoneValue
        ELSE IF inches.tag = "nan" THEN NoneValue
        ELSE IF inches.tag = "inf" THEN OverflowError
        ELSE IntValue(RoundCm(inches.num, inches.scale))

parse_weight_to_lbs(weight_str) ==
    IF ~Truthy(weight_str) \/ HasDoubleDash(weight_str) THEN NoneValue
    ELSE
    LET pounds == PyFloat(RemoveChar(Replace(weight_str, <<" ", "lbs.">>), " "))
    IN  IF pounds = ValueError THEN NoneValue ELSE pounds

----------------------------------------------------------------------------
(* Arguments of the three parsers: every str of at most MaxChars tokens    *)
(* over the characters the parser looks at and one it does not ("x"), and  *)
(* the texts of the site.                                                  *)

MaxChars == 4

HeightChars == {"1", "3", "5", "6", "'", "\"", " ", "-", "x"}
ReachChars == {"2", "5", "7", "\"", " ", "-", ".", "inf", "nan", "x"}
WeightChars == {"1", "5", "8", " ", "lbs.", ".", "-", "inf", "x"}

DigitStrings(chars, n) == SeqsUpTo(chars \cap DigitChars, n) \ { << >> }

\* Height, reach and weight as the site writes them: 6' 3", 72", 185 lbs.
SiteHeights ==
    { f \o <<"'", " ">> \o i \o <<"\"">> :
        f \in DigitStrings(HeightChars, 1), i \in DigitStrings(HeightChars, 2) }
SiteReaches ==
    { n \o <<"\"">> : n \in DigitStrings(ReachChars, 3) } \cup
    { n \o <<".">> \o d \o <<"\"">> :
        n \in DigitStrings(ReachChars, 2), d \in DigitStrings(ReachChars, 1) }
SiteWeights ==
    { n \o <<" ", "lbs.">> : n \in DigitStrings(WeightChars, 3) }

UnitTexts(chars) == {None} \cup SeqsUpTo(chars, MaxChars)

InitUn ==
    /\ \/ /\ un_kind = "height"
          /\ un_text \in UnitTexts(HeightChars) \cup SiteHeights
       \/ /\ un_kind = "reach"
          /\ un_text \in UnitTexts(ReachChars) \cup SiteReaches
       \/ /\ un_kind = "weight"
          /\ un_text \in UnitTexts(WeightChars) \cup SiteWeights
    /\ un_result = NoneValue
    /\ un_pc = "call"

IdleUn ==
    /\ un_kind = "idle"
    /\ un_text = None
    /\ un_result = NoneValue
    /\ un_pc = "idle"

ParseHeight ==
    /\ un_pc = "call"
    /\ un_kind = "height"
    /\ un_result' = parse_height_to_cm(un_text)
    /\ un_pc' = "done"
    /\ UNCHANGED <<un_kind, un_text>>
    /\ OnlyUn

ParseReach ==
    /\ un_pc = "call"
    /\ un_kind = "reach"
    /\ parse_reach_to_cm(un_text) # OverflowError
    /\ un_result' = parse_reach_to_cm(un_text)
    /\ un_pc' = "done"
    /\ UNCHANGED <<un_kind, un_text>>
    /\ OnlyUn

\* parse_reach_to_cm leaves by an exception of round().
ParseReachRaises ==
    /\ un_pc = "call"
    /\ un_kind = "reach"
    /\ parse_reach_to_cm(un_text) = OverflowError
    /\ un_result' = OverflowError
    /\ un_pc' = "raised"
    /\ UNCHANGED <<un_kind, un_text>>
    /\ OnlyUn

ParseWeight ==
    /\ un_pc = "call"
    /\ un_kind = "weight"
    /\ un_result' = parse_weight_to_lbs(un_text)
    /\ un_pc' = "done"
    /\ UNCHANGED <<un_kind, un_text>>
    /\ OnlyUn

NextUn ==
    \/ ParseHeight
    \/ ParseReach
    \/ ParseReachRaises
    \/ ParseWeight

----------------------------------------------------------------------------
(* Inch-to-centimeter conversion                                           *)

C8_Digits(s) == s # << >> /\ AllDigits(s)

\* The inch counts a text F' I" writes (F feet, I inches, a space allowed
\* before I); empty when the text is not of that form.
C8_HeightInches(s) ==
    { 12 * DecimalOf(SubSeq(s, 1, k - 1)) +
      DecimalOf(RemoveChar(SubSeq(s, k + 1, Len(s) - 1), " ")) :
        k \in { j \in 2..(Len(s) - 2) :
                  /\ s[j] = "'"
                  /\ s[Len(s)] = "\""
                  /\ C8_Digits(SubSeq(s, 1, j - 1))
                  /\ \/ C8_Digits(SubSeq(s, j + 1, Len(s) - 1))
                     \/ /\ s[j + 1] = " "
                        /\ C8_Digits(SubSeq(s, j + 2, Len(s) - 1)) } }

\* The inch counts, in units of 1 / den, a text N" writes (N a whole number
\* or a decimal fraction); empty when the text is not of that form.
C8_ReachInches(s) ==
    IF Len(s) < 2 \/ s[Len(s)] # "\"" THEN {}
    ELSE LET n == SubSeq(s, 1, Len(s) - 1)
             p == SplitOn(n, ".")
         IN  IF C8_Digits(n) THEN { [num |-> DecimalOf(n), den |-> 1] }
             ELSE IF Len(p) = 2 /\ C8_Digits(p[1]) /\ C8_Digits(p[2])
                  THEN { [num |-> DecimalOf(p[1] \o p[2]),
                          den |-> Pow10(Len(p[2]))] }
                  ELSE {}

\* cm is an integer nearest to (num / den) x 2.54.
C8_Nearest(cm, num, den) ==
    LET diff == 50 * den * cm - 127 * num
    IN  diff <= 25 * den /\ 0 - diff <= 25 * den

\* C8: for every well-formed height F' I" parse_height_to_cm returns
\* (12 F + I) x 2.54 rounded to the nearest integer centimeter, and for every
\* well-formed reach N" parse_reach_to_cm returns N x 2.54 rounded to the
\* nearest integer centimeter, products ending in .5 included.
C8_InchesToCm ==
    /\ un_kind = "height" /\ un_pc # "call" =>
           \A inches \in C8_HeightInches(un_text) :
               /\ un_pc = "done"
               /\ un_result.tag = "int"
               /\ C8_Nearest(un_result.val, inches, 1)
    /\ un_kind = "reach" /\ un_pc # "call" =>
           \A inches \in C8_ReachInches(un_text) :
               /\ un_pc = "done"
               /\ un_result.tag = "int"
               /\ C8_Nearest(un_result.val, inches.num, inches.den)

\* 6' 3" is 75 in = 190.5 cm, returned as 190.
C8_Witness ==
    /\ un_kind = "height"
    /\ un_text = <<"6", "'", " ", "3", "\"">>
    /\ un_pc = "done"
    /\ C8_HeightInches(un_text) = {75}
    /\ un_result = IntValue(190)

----------------------------------------------------------------------------
(* src/ufc_scraper/scraper.py : scrape_fighter_profile                     *)
(*                                                                         *)
(* A page is its name span, its record span and its info boxes in document *)
(* order; a box is small-width or not, has a title or none, and has list   *)
(* items; a list item is the sequence of its text nodes.                   *)

NoPage == [ok |-> FALSE, name |-> NoText, record |-> NoText, boxes |-> << >>]
Page(name, record, boxes) ==
    [ok |-> TRUE, name |-> name, record |-> record, boxes |-> boxes]

RECURSIVE LStrip(_)
LStrip(text) ==
    IF text # << >> /\ IsSpace(Head(text)) THEN LStrip(Tail(text)) ELSE text

RECURSIVE RStrip(_)
RStrip(text) ==
    IF text # << >> /\ IsSpace(text[Len(text)])
    THEN RStrip(SubSeq(text, 1, Len(text) - 1))
    ELSE text

\* str.strip()
Strip(text) == LStrip(RStrip(text))

RECURSIVE JoinWith(_, _)
\* separator.join(strings)
JoinWith(strings, separator) ==
    IF strings = << >> THEN << >>
    ELSE IF Len(strings) = 1 THEN Head(strings)
         ELSE Head(strings) \o separator \o JoinWith(Tail(strings), separator)

\* item.get_text(separator=": ", strip=True): the text nodes stripped, the
\* empty ones dropped, the rest joined by the separator.
GetTextStripped(item) ==
    JoinWith(SelectSeq([k \in 1..Len(item) |-> Strip(item[k])],
                       LAMBDA t : t # << >>),
             <<":", " ">>)

\* [utils.clean_text(part) for part in text.split(":", 1)], ":" in text
KeyValue(text) ==
    LET k == CHOOSE j \in 1..Len(text) :
                 text[j] = ":" /\ \A m \in 1..(j - 1) : text[m] # ":"
    IN  [key |-> clean_text(SubSeq(text, 1, k - 1)),
         value |-> clean_text(SubSeq(text, k + 1, Len(text)))]

\* soup.select("div.b-list__info-box_style_small-width
\*              ul.b-list__box-list li.b-list__box-list-item")
RECURSIVE InfoListItems(_)
InfoListItems(boxes) ==
    IF boxes = << >> THEN << >>
    ELSE (IF Head(boxes).small_width THEN Head(boxes).items ELSE << >>)
         \o InfoListItems(Tail(boxes))

\* fighter_stats = {"url": fighter_url}; name; record
ProfileHeader(url, page) ==
    [f \in {"url", "name", "record"} |->
        CASE f = "url" -> url
          [] f = "name" ->
                IF page.name # NoText THEN clean_text(page.name) ELSE <<"N/A">>
          [] f = "record" ->
                IF page.record # NoText
                THEN clean_text(Replace(page.record, <<"Record", ":", " ">>))
                ELSE <<"N/A">>]

\* The body of the loop over info_list_items raises: parse_reach_to_cm does.
InfoItemRaises(item) ==
    LET text_content == clean_text(GetTextStripped(item))
    IN  /\ HasChar(text_content, ":")
        /\ KeyValue(text_content).key = <<"Reach">>
        /\ parse_reach_to_cm(KeyValue(text_content).value) = OverflowError

\* The body of the loop over info_list_items.
InfoItem(fighter_stats, item) ==
    LET text_content == clean_text(GetTextStripped(item))
        key == KeyValue(text_content).key
        value == KeyValue(text_content).value
    IN  IF ~HasChar(text_content, ":") THEN fighter_stats
        ELSE CASE key = <<"Height">> ->
                    DictPut(DictPut(fighter_stats, "height_str", value),
                            "height_cm", parse_height_to_cm(value))
               [] key = <<"Weight">> ->
                    DictPut(DictPut(fighter_stats, "weight_str", value),
                            "weight_lbs", parse_weight_to_lbs(value))
               [] key = <<"Reach">> ->
                    DictPut(DictPut(fighter_stats, "reach_str", value),
                            "reach_cm", parse_reach_to_cm(value))
               [] key = <<"STANCE">> -> DictPut(fighter_stats, "stance", value)
               [] key = <<"DOB">> -> DictPut(fighter_stats, "dob", value)
               [] OTHER -> fighter_stats

\* phrase in text
HasPhrase(text, phrase) == \E k \in 1..Len(text) : OccursAt(text, phrase, k)

\* The first box whose h3 title has "Career Statistics" in it; 0 if none.
CareerStatsBox(boxes) ==
    LET hits == { k \in 1..Len(boxes) :
                    /\ boxes[k].title # NoText
                    /\ HasPhrase(boxes[k].title,
                                 <<"Career", " ", "Statistics">>) }
    IN  IF hits = {} THEN 0
        ELSE CHOOSE k \in hits : \A m \in hits : k <= m

career_stats_map ==
    << [label |-> <<"SLpM">>, stat_name |-> "slpm"],
       [label |-> <<"Str", ".", " ", "Acc", ".">>, stat_name |-> "str_acc"],
       [label |-> <<"SApM">>, stat_name |-> "sapm"],
       [label |-> <<"Str", ".", " ", "Def">>, stat_name |-> "str_def"],
       [label |-> <<"TD", " ", "Avg", ".">>, stat_name |-> "td_avg"],
       [label |-> <<"TD", " ", "Acc", ".">>, stat_name |-> "td_acc"],
       [label |-> <<"TD", " ", "Def", ".">>, stat_name |-> "td_def"],
       [label |-> <<"Sub", ".", " ", "Avg", ".">>, stat_name |-> "sub_avg"] >>

\* Mutant of StatItem: the label is compared as it is written.
StatItem_Exact(fighter_stats, item) ==
    LET item_text == GetTextStripped(item)
        hits == { k \in 1..Len(career_stats_map) :
                    KeyValue(item_text).key = career_stats_map[k].label }
    IN  IF ~HasChar(item_text, ":") \/ hits = {} THEN fighter_stats
        ELSE DictPut(fighter_stats,
                     career_stats_map[CHOOSE k \in hits :
                                          \A m \in hits : k <= m].stat_name,
                     KeyValue(item_text).value)

\* The body of the loop over stat_items.
StatItem(fighter_stats, item) ==
    LET item_text == GetTextStripped(item)
        normalized_label == RemoveChar(KeyValue(item_text).key, ".")
        hits == { k \in 1..Len(career_stats_map) :
                    normalized_label = RemoveChar(career_stats_map[k].label, ".") }
    IN  IF ~HasChar(item_text, ":") \/ hits = {} THEN fighter_stats
        ELSE DictPut(fighter_stats,
                     career_stats_map[CHOOSE k \in hits :
                                          \A m \in hits : k <= m].stat_name,
                     KeyValue(item_text).value)

RECURSIVE StatItems(_, _)
StatItems(fighter_stats, stat_items) ==
    IF stat_items = << >> THEN fighter_stats
    ELSE StatItems(StatItem(fighter_stats, Head(stat_items)), Tail(stat_items))

\* if career_stats_box: ...
CareerStatistics(fighter_stats, boxes) ==
    IF CareerStatsBox(boxes) = 0 THEN fighter_stats
    ELSE StatItems(fighter_stats, boxes[CareerStatsBox(boxes)].items)

----------------------------------------------------------------------------
(* Profile pages: a small-width box of at most MaxItems items, then no     *)
(* other box, a career statistics box, or that box after an untitled one.  *)

MaxItems == 2

Labelled(label, value) == <<label, value>>

\* <li><i>Height:</i> 6' 3"</li>, as the site writes its items.
SiteItem(label, value) ==
    << <<"\n", " ">>, label \o <<":">>, <<"\n", " ">> \o value \o <<"\n">> >>

HeightTexts ==
    { <<"6", "'", " ", "3", "\"">>, <<"-", "-">>, <<"x">> }
WeightTexts ==
    { <<"1", "8", "5", " ", "lbs.">>, <<"-", "-">>, <<"inf", " ", "lbs.">> }
ReachTexts ==
    { <<"7", "2", "\"">>, <<"-", "-">>, <<"inf", "\"">> }

InfoItems ==
    { Labelled(<<"Height">>, v) : v \in HeightTexts } \cup
    { Labelled(<<"Weight">>, v) : v \in WeightTexts } \cup
    { Labelled(<<"Reach">>, v) : v \in ReachTexts } \cup
    { SiteItem(<<"Height">>, <<"6", "'", " ", "3", "\"">>),
      << <<"Height", ":">> >>,
      Labelled(<<"STANCE">>, <<"Orthodox">>),
      Labelled(<<"DOB">>, <<"Jul", " ", "19", ",", " ", "1987">>),
      << <<"Orthodox">> >> }

InfoBox(items) == [small_width |-> TRUE, title |-> NoText, items |-> items]

CareerBox ==
    [small_width |-> FALSE,
     title |-> <<"\n", "Career", " ", "Statistics", ":", "\n">>,
     items |-> << Labelled(<<"SLpM">>, <<"5.2">>),
                  Labelled(<<"Str", ".", " ", "Def", ".">>, <<"55%">>),
                  Labelled(<<"Wins">>, <<"27">>),
                  << <<"\n">> >> >>]

OtherBox ==
    [small_width |-> FALSE, title |-> NoText,
     items |-> << Labelled(<<"SApM">>, <<"3.1">>) >>]

BoxTails == { << >>, <<CareerBox>>, <<OtherBox, CareerBox>> }

ProfilePages ==
    {NoPage} \cup
    { Page(h.name, h.record, <<InfoBox(items)>> \o tail) :
        h \in { [name |-> NoText, record |-> NoText],
                [name |-> <<"\n", "Jon", " ", " ", "Jones", "\n">>,
                 record |-> <<"\n", "Record", ":", " ", "27-1-0", "\n">>] },
        items \in SeqsUpTo(InfoItems, MaxItems),
        tail \in BoxTails }

NoStats == [f \in {} |-> << >>]

InitPf ==
    /\ pf_url = HrefAbs("a1")
    /\ pf_page \in ProfilePages
    /\ pf_items = << >>
    /\ pf_i = 0
    /\ pf_stats = NoStats
    /\ pf_pc = "fetch"

IdlePf ==
    /\ pf_url = None
    /\ pf_page = NoPage
    /\ pf_items = << >>
    /\ pf_i = 0
    /\ pf_stats = NoStats
    /\ pf_pc = "idle"

\* if not soup: return None
PfFetchFailed ==
    /\ pf_pc = "fetch"
    /\ ~pf_page.ok
    /\ pf_pc' = "returned None"
    /\ UNCHANGED <<pf_url, pf_page, pf_items, pf_i, pf_stats>>
    /\ OnlyPf

\* url, name, record; info_list_items = soup.select(...)
PfHeader ==
    /\ pf_pc = "fetch"
    /\ pf_page.ok
    /\ pf_stats' = ProfileHeader(pf_url, pf_page)
    /\ pf_items' = InfoListItems(pf_page.boxes)
    /\ pf_i' = 1
    /\ pf_pc' = "info"
    /\ UNCHANGED <<pf_url, pf_page>>
    /\ OnlyPf

PfInfoItem ==
    /\ pf_pc = "info"
    /\ pf_i <= Len(pf_items)
    /\ ~InfoItemRaises(pf_items[pf_i])
    /\ pf_stats' = InfoItem(pf_stats, pf_items[pf_i])
    /\ pf_i' = pf_i + 1
    /\ UNCHANGED <<pf_url, pf_page, pf_items, pf_pc>>
    /\ OnlyPf

\* The exception leaves scrape_fighter_profile: nothing is returned.
PfInfoItemRaises ==
    /\ pf_pc = "info"
    /\ pf_i <= Len(pf_items)
    /\ InfoItemRaises(pf_items[pf_i])
    /\ pf_stats' = NoStats
    /\ pf_pc' = "raised"
    /\ UNCHANGED <<pf_url, pf_page, pf_items, pf_i>>
    /\ OnlyPf

\* The career statistics, then return fighter_stats.
PfCareerStatistics ==
    /\ pf_pc = "info"
    /\ pf_i > Len(pf_items)
    /\ pf_stats' = CareerStatistics(pf_stats, pf_page.boxes)
    /\ pf_pc' = "returned"
    /\ UNCHANGED <<pf_url, pf_page, pf_items, pf_i>>
    /\ OnlyPf

NextPf ==
    \/ PfFetchFailed
    \/ PfHeader
    \/ PfInfoItem
    \/ PfInfoItemRaises
    \/ PfCareerStatistics

----------------------------------------------------------------------------
(* Unit-conversion failure in a profile                                    *)

C9_GoodText(key) ==
    CASE key = <<"Height">> -> <<"6", "'", " ", "3", "\"">>
      [] key = <<"Weight">> -> <<"1", "8", "5", " ", "lbs.">>
      [] key = <<"Reach">> -> <<"7", "2", "\"">>

\* The text is a height F' I", a weight N lbs. or a reach N".
C9_WellFormed(key, value) ==
    CASE key = <<"Height">> -> C8_HeightInches(value) # {}
      [] key = <<"Weight">> ->
            /\ Len(value) >= 3
            /\ SubSeq(value, Len(value) - 1, Len(value)) = <<" ", "lbs.">>
            /\ C8_Digits(SubSeq(value, 1, Len(value) - 2))
      [] key = <<"Reach">> -> C8_ReachInches(value) # {}

C9_UnitKeys == { <<"Height">>, <<"Weight">>, <<"Reach">> }

C9_Fields(key) ==
    CASE key = <<"Height">> -> [str |-> "height_str", num |-> "height_cm"]
      [] key = <<"Weight">> -> [str |-> "weight_str", num |-> "weight_lbs"]
      [] key = <<"Reach">> -> [str |-> "reach_str", num |-> "reach_cm"]

C9_HasKey(item) == HasChar(clean_text(GetTextStripped(item)), ":")
C9_Key(item) == KeyValue(clean_text(GetTextStripped(item))).key
C9_Value(item) == KeyValue(clean_text(GetTextStripped(item))).value

\* The items of the page that give the unit field a text that is empty, the
\* placeholder or otherwise not well-formed.
C9_Failing(key) ==
    { k \in 1..Len(pf_items) :
        /\ C9_HasKey(pf_items[k])
        /\ C9_Key(pf_items[k]) = key
        /\ ~C9_WellFormed(key, C9_Value(pf_items[k])) }

\* The items of the page, each failing text replaced by a well-formed one.
C9_Repaired ==
    [k \in 1..Len(pf_items) |->
        IF \E key \in C9_UnitKeys : k \in C9_Failing(key)
        THEN Labelled(C9_Key(pf_items[k]), C9_GoodText(C9_Key(pf_items[k])))
        ELSE pf_items[k]]

RECURSIVE C9_FoldInfo(_, _)
C9_FoldInfo(stats, items) ==
    IF items = << >> THEN stats
    ELSE C9_FoldInfo(InfoItem(stats, Head(items)), Tail(items))

\* The record of the page with its failing texts repaired.
C9_Reference ==
    CareerStatistics(C9_FoldInfo(ProfileHeader(pf_url, pf_page), C9_Repaired),
                     pf_page.boxes)

\* C9: when the Height, Reach or Weight text of a profile is empty, the
\* placeholder "--" or otherwise unparseable, no error is raised, the parser
\* returns null for that field only, and scrape_fighter_profile returns the
\* record with every other field set as it would be for well-formed input.
C9_UnitFailureIsolated ==
    /\ pf_pc # "raised"
    /\ pf_pc = "returned" =>
          /\ DOMAIN pf_stats = DOMAIN C9_Reference
          /\ \A key \in C9_UnitKeys :
                IF C9_Failing(key) = {}
                THEN \A f \in {C9_Fields(key).str, C9_Fields(key).num} :
                        f \in DOMAIN pf_stats => pf_stats[f] = C9_Reference[f]
                ELSE \A k \in C9_Failing(key) :
                        (\A m \in (k + 1)..Len(pf_items) :
                            ~(C9_HasKey(pf_items[m]) /\ C9_Key(pf_items[m]) = key))
                        => pf_stats[C9_Fields(key).num] = NoneValue
          /\ \A f \in DOMAIN pf_stats :
                (\A key \in C9_UnitKeys :
                    f \notin {C9_Fields(key).str, C9_Fields(key).num})
                => pf_stats[f] = C9_Reference[f]

----------------------------------------------------------------------------
(* src/ufc_scraper/scraper.py : scrape_event_list                          *)
(*                                                                         *)
(* A table row is what the three selectors find in it: the event link of   *)
(* its first cell, the date span of its first cell, its second cell.       *)

NoLink == [text |-> NoText, href |-> None]
NoEventsPage == [ok |-> FALSE, rows |-> << >>]
EventsPage(rows) == [ok |-> TRUE, rows |-> rows]

\* Mutant of FullEventUrl: the base is never put in front.
FullEventUrl_NoBase(event_url) == event_url

\* config.FIGHTER_STATS_BASE_URL + event_url
\*     if not event_url.startswith('http') else event_url
FullEventUrl(event_url) ==
    IF ~StartsWithHttp(event_url)
    THEN <<FIGHTER_STATS_BASE_URL>> \o event_url
    ELSE event_url

\* if event_link_tag and date_tag
RowIsEvent(row) == row.link # NoLink /\ row.date # NoText

EventRecord(row) ==
    [name |-> clean_text(row.link.text),
     date |-> clean_text(row.date),
     location |-> IF row.location # NoText THEN clean_text(row.location)
                  ELSE <<"N/A">>,
     url |-> FullEventUrl(row.link.href)]

----------------------------------------------------------------------------
(* Event pages: at most MaxEventRows rows; a row has no event link or one  *)
(* with no href, an empty, a relative or an absolute one; a date span or   *)
(* none; a second cell or none.                                            *)

MaxEventRows == 2

EventLinks ==
    {NoLink} \cup
    { [text |-> <<"\n", "UFC", " ", " ", "300", "\n">>, href |-> h] :
        h \in { None, << >>, <<"/event-details/", "e1">>,
                <<"http://ufcstats.com", "/event-details/", "e2">> } }

EventRows ==
    { [link |-> l, date |-> d, location |-> c] :
        l \in EventLinks,
        d \in { NoText, <<"\n", "April", " ", "13,", " ", "2024", "\n">> },
        c \in { NoText, <<"\n", "Las", " ", "Vegas,", " ", "Nevada", "\n">> } }

InitEv ==
    /\ ev_page \in {NoEventsPage} \cup
                   { EventsPage(rows) : rows \in SeqsUpTo(EventRows, MaxEventRows) }
    /\ ev_rows = << >>
    /\ ev_i = 0
    /\ ev_events = << >>
    /\ ev_pc = "fetch"

IdleEv ==
    /\ ev_page = NoEventsPage
    /\ ev_rows = << >>
    /\ ev_i = 0
    /\ ev_events = << >>
    /\ ev_pc = "idle"

\* if not soup: return []
EvFetchFailed ==
    /\ ev_pc = "fetch"
    /\ ~ev_page.ok
    /\ ev_pc' = "done"
    /\ UNCHANGED <<ev_page, ev_rows, ev_i, ev_events>>
    /\ OnlyEv

\* events = []; table_rows = soup.select("tr.b-statistics__table-row")
EvSelectRows ==
    /\ ev_pc = "fetch"
    /\ ev_page.ok
    /\ ev_rows' = ev_page.rows
    /\ ev_i' = 1
    /\ ev_events' = << >>
    /\ ev_pc' = "loop"
    /\ UNCHANGED ev_page
    /\ OnlyEv

EvAppendEvent ==
    /\ ev_pc = "loop"
    /\ ev_i <= Len(ev_rows)
    /\ RowIsEvent(ev_rows[ev_i])
    /\ Truthy(ev_rows[ev_i].link.href)
    /\ ev_events' = Append(ev_events, EventRecord(ev_rows[ev_i]))
    /\ ev_i' = ev_i + 1
    /\ UNCHANGED <<ev_page, ev_rows, ev_pc>>
    /\ OnlyEv

\* "Warning: Found event ... without a URL. Skipping."
EvSkipNoUrl ==
    /\ ev_pc = "loop"
    /\ ev_i <= Len(ev_rows)
    /\ RowIsEvent(ev_rows[ev_i])
    /\ ~Truthy(ev_rows[ev_i].link.href)
    /\ ev_i' = ev_i + 1
    /\ UNCHANGED <<ev_page, ev_rows, ev_events, ev_pc>>
    /\ OnlyEv

\* No event link or no date span: the row is passed over without a word.
EvSkipRow ==
    /\ ev_pc = "loop"
    /\ ev_i <= Len(ev_rows)
    /\ ~RowIsEvent(ev_rows[ev_i])
    /\ ev_i' = ev_i + 1
    /\ UNCHANGED <<ev_page, ev_rows, ev_events, ev_pc>>
    /\ OnlyEv

EvReturn ==
    /\ ev_pc = "loop"
    /\ ev_i > Len(ev_rows)
    /\ ev_pc' = "done"
    /\ UNCHANGED <<ev_page, ev_rows, ev_i, ev_events>>
    /\ OnlyEv

NextEv ==
    \/ EvFetchFailed
    \/ EvSelectRows
    \/ EvAppendEvent
    \/ EvSkipNoUrl
    \/ EvSkipRow
    \/ EvReturn

----------------------------------------------------------------------------
(* One event per row                                                       *)

\* The row has an event link with a non-empty href.
C10_HasUrl(row) == row.link # NoLink /\ row.link.href \notin {None, << >>}

\* The row has, besides, a date span.
C10_HasUrlAndDate(row) == C10_HasUrl(row) /\ row.date # NoText

C10_Absolute(url) == url[1] \in {"http://ufcstats.com", "https://ufcstats.com"}

\* The events are those of the rows, one each and in their order, the URL of
\* each the href if it starts with http and the site base with the href
\* behind it otherwise.
C10_EventsOf(rows) ==
    /\ Len(ev_events) = Len(rows)
    /\ \A k \in 1..Len(rows) :
          /\ ev_events[k].name = <<"UFC", " ", "300">>
          /\ C10_Absolute(ev_events[k].url)
          /\ ev_events[k].url =
                IF C10_Absolute(rows[k].link.href) THEN rows[k].link.href
                ELSE <<"http://ufcstats.com">> \o rows[k].link.href

\* C10 as stated: scrape_event_list emits one Event, in document order, for
\* each row matching the event-row pattern, each with an absolute URL; the
\* only rows skipped are those missing a resolvable URL.
C10_SkipsOnlyMissingUrl ==
    ev_pc = "done" => C10_EventsOf(SelectSeq(ev_rows, C10_HasUrl))

\* C10, amended: scrape_event_list emits one Event, in document order, for
\* each row that has an event link with a non-empty href and a date span,
\* each with an absolute URL; every other row is skipped.
C10_OneEventPerDatedRow ==
    ev_pc \in {"loop", "done"} =>
        C10_EventsOf(SelectSeq(SubSeq(ev_rows, 1, ev_i - 1), C10_HasUrlAndDate))

\* A row with a URL and no date span is skipped, the row after it, with a
\* relative href, is emitted.
C10_Witness ==
    /\ ev_pc = "done"
    /\ Len(ev_rows) = 2
    /\ C10_HasUrl(ev_rows[1]) /\ ev_rows[1].date = NoText
    /\ C10_HasUrlAndDate(ev_rows[2])
    /\ ev_rows[2].link.href = <<"/event-details/", "e1">>
    /\ Len(ev_events) = 1
    /\ ev_events[1].url = <<"http://ufcstats.com", "/event-details/", "e1">>

----------------------------------------------------------------------------
(* src/ufc_scraper/utils.py : parse_fighter_id_from_url                    *)
(*                                                                         *)
(* A URL is a sequence of tokens: "fighter-details/" and the other pieces  *)
(* of a path kept whole, and single characters.                            *)

\* [a-zA-Z0-9], on the characters of the model.
AlnumChars == {"a", "Z", "7"}

\* The end of the group when 'fighter-details/([a-zA-Z0-9]+)$' matches with
\* "fighter-details/" at position k, 0 when it does not; $ matches at the end
\* of the string and before a newline that ends it.
IdMatchEnd(url, k) ==
    LET last == IF url[Len(url)] = "\n" THEN Len(url) - 1 ELSE Len(url)
    IN  IF /\ url[k] = "fighter-details/"
           /\ last > k
           /\ \A j \in (k + 1)..last : url[j] \in AlnumChars
        THEN last ELSE 0

\* Mutant of parse_fighter_id_from_url: the pattern has lost its $.
parse_fighter_id_from_url_Unanchored(fighter_url) ==
    LET hits == { k \in 1..(Len(fighter_url) - 1) :
                    /\ fighter_url[k] = "fighter-details/"
                    /\ fighter_url[k + 1] \in AlnumChars }
        first == CHOOSE k \in hits : \A m \in hits : k <= m
        stop == CHOOSE e \in first..Len(fighter_url) :
                    /\ \A j \in (first + 1)..e : fighter_url[j] \in AlnumChars
                    /\ e = Len(fighter_url) \/ fighter_url[e + 1] \notin AlnumChars
                    /\ e > first
    IN  IF ~Truthy(fighter_url) \/ hits = {} THEN None
        ELSE SubSeq(fighter_url, first + 1, stop)

parse_fighter_id_from_url(fighter_url) ==
    LET hits == { k \in 1..Len(fighter_url) : IdMatchEnd(fighter_url, k) # 0 }
        first == CHOOSE k \in hits : \A m \in hits : k <= m
    IN  IF ~Truthy(fighter_url) \/ hits = {} THEN None
        ELSE SubSeq(fighter_url, first + 1, IdMatchEnd(fighter_url, first))

----------------------------------------------------------------------------
(* URLs: None and every sequence of at most MaxUrlTokens tokens.           *)

MaxUrlTokens == 4

UrlTokens ==
    AlnumChars \cup
    {"http://ufcstats.com/", "fighter-details/", "event-details/", "-", "/", "\n"}

InitId ==
    /\ id_url \in {None} \cup SeqsUpTo(UrlTokens, MaxUrlTokens)
    /\ id_result = NotYet
    /\ id_pc = "call"

IdleId ==
    /\ id_url = None
    /\ id_result = NotYet
    /\ id_pc = "idle"

ParseFighterId ==
    /\ id_pc = "call"
    /\ id_result' = parse_fighter_id_from_url(id_url)
    /\ id_pc' = "done"
    /\ UNCHANGED id_url
    /\ OnlyId

NextId == ParseFighterId

----------------------------------------------------------------------------
(* The fighter id of a URL                                                 *)

C11_HasSegment(url) ==
    url # None /\ \E k \in 1..Len(url) : url[k] = "fighter-details/"

\* What follows the last "fighter-details/" of the URL.
C11_Trailing(url) ==
    LET last == CHOOSE k \in 1..Len(url) :
                    /\ url[k] = "fighter-details/"
                    /\ \A m \in (k + 1)..Len(url) : url[m] # "fighter-details/"
    IN  SubSeq(url, last + 1, Len(url))

C11_IsId(seg) ==
    seg # << >> /\ \A j \in 1..Len(seg) : seg[j] \in {"a", "Z", "7"}

\* C11 as stated: parse_fighter_id_from_url returns the trailing path segment
\* that follows fighter-details/ for every URL containing that segment, and
\* null for a null or empty URL or one that lacks the segment.
C11_TrailingSegment ==
    id_pc = "done" =>
        id_result = IF C11_HasSegment(id_url) /\ C11_Trailing(id_url) # << >>
                    THEN C11_Trailing(id_url)
                    ELSE None

\* C11, amended: parse_fighter_id_from_url returns what follows the last
\* fighter-details/ of the URL when that is one or more ASCII letters and
\* digits up to the end of the URL (one final newline set aside), and null
\* for every other URL: null, empty, lacking the segment, or with anything
\* else behind it.
C11_TrailingAlnumId ==
    id_pc = "done" =>
        id_result =
            IF C11_HasSegment(id_url) /\ C11_IsId(C11_Trailing(id_url))
            THEN C11_Trailing(id_url)
            ELSE IF /\ C11_HasSegment(id_url)
                    /\ id_url[Len(id_url)] = "\n"
                    /\ C11_IsId(C11_Trailing(SubSeq(id_url, 1, Len(id_url) - 1)))
                 THEN C11_Trailing(SubSeq(id_url, 1, Len(id_url) - 1))
                 ELSE None

C11_Witness ==
    /\ id_pc = "done"
    /\ id_url = <<"http://ufcstats.com/", "fighter-details/", "a", "7">>
    /\ id_result = <<"a", "7">>

----------------------------------------------------------------------------
(* src/main.py : main, run after run                                       *)
(*                                                                         *)
(* The site answers each request of get_soup with a failure or a page.  A  *)
(* page is given by what scrape_event_list or scrape_event_fights extracts *)
(* from it (SpecEv and SpecEf model the extraction).  The three files hold *)
(* what save_json last wrote to them; in this specification every write    *)
(* succeeds (SpecFi has the writes that fail).                             *)

REQUEST_DELAY == 2

FetchFailed == [ok |-> FALSE, events |-> << >>, fights |-> << >>]
ListPage(events) == [ok |-> TRUE, events |-> events, fights |-> << >>]
EventPage(fights) == [ok |-> TRUE, events |-> << >>, fights |-> fights]

\* The write of save_json went through.
Saved(file, data) == file.state = "ok" /\ file.data = data

\* load_json(config.FIGHTS_FILE) or []
load_fights_data(file) == IF JsonLoads(file) THEN file.data ELSE << >>

\* fight["event_date"] = event_date (scrape_event_fights);
\* fight['event_name'] = event['name'] (main)
TagFights(fights, event) ==
    [k \in 1..Len(fights) |->
        fights[k] @@ [event_date |-> event.date, event_name |-> event.name]]

\* Mutant of IndexAfterRun: the index is rebuilt only when this run has no
\* fights of its own.
IndexAfterRun_SkipsNew(all_fights, fights_file, index_file) ==
    IF all_fights # << >> \/ load_fights_data(fights_file) = << >>
    THEN index_file
    ELSE Written(BuildIndex(load_fights_data(fights_file), index_file))

\* Step 3 of main: update_fighter_index on the fights of this run, or on
\* those of the fights file when this run has none; nothing when there are
\* none at all.  The index file afterwards, save_fighter_index succeeding.
IndexAfterRun(all_fights, fights_file, index_file) ==
    LET current_fights_for_index ==
            IF all_fights # << >> THEN all_fights
            ELSE load_fights_data(fights_file)
    IN  IF current_fights_for_index = << >> THEN index_file
        ELSE Written(BuildIndex(current_fights_for_index, index_file))

----------------------------------------------------------------------------
(* The site: it lists some of MaxEvents events, the latest first; the page *)
(* of an event has no fight or the one fight of that event.                *)

MaxEvents == 2

SiteEvent(n) ==
    [name |-> <<"UFC", " ", ToString(n)>>,
     date |-> <<"April", " ", "13,", " ", "2024">>,
     location |-> <<"N/A">>,
     url |-> <<"http://ufcstats.com", "/event-details/", ToString(n)>>]

RECURSIVE LatestFirst(_)
LatestFirst(S) ==
    IF S = {} THEN << >>
    ELSE LET n == CHOOSE m \in S : \A k \in S : k <= m
         IN  <<SiteEvent(n)>> \o LatestFirst(S \ {n})

\* The fight of event n: fighters n and n + 1 of the names of the model.
SiteFight(n) ==
    [weight_class |-> <<"Lightweight">>,
     fighter1_name |-> NameOrder[n + 1], fighter1_url |-> Url(ToString(n)),
     fighter2_name |-> NameOrder[n + 2], fighter2_url |-> Url(ToString(n + 1))]

ListResponses ==
    {FetchFailed} \cup { ListPage(LatestFirst(S)) : S \in SUBSET (1..MaxEvents) }

EventResponses(url) ==
    { FetchFailed, EventPage(<< >>) } \cup
    { EventPage(<<SiteFight(n)>>) : n \in { m \in 1..MaxEvents : SiteEvent(m).url = url } }

InitMn ==
    /\ mn_events_file = AbsentFile(<< >>)
    /\ mn_fights_file = AbsentFile(<< >>)
    /\ mn_index_file = AbsentFile(EmptyIndex)
    /\ mn_resp = FetchFailed
    /\ mn_events = << >>
    /\ mn_i = 0
    /\ mn_all_fights = << >>
    /\ mn_log = << >>
    /\ mn_fetches = 0
    /\ mn_since = 0
    /\ mn_pc = "not run"

IdleMn ==
    /\ mn_events_file = AbsentFile(<< >>)
    /\ mn_fights_file = AbsentFile(<< >>)
    /\ mn_index_file = AbsentFile(EmptyIndex)
    /\ mn_resp = FetchFailed
    /\ mn_events = << >>
    /\ mn_i = 0
    /\ mn_all_fights = << >>
    /\ mn_log = << >>
    /\ mn_fetches = 0
    /\ mn_since = 0
    /\ mn_pc = "idle"

MnFiles == <<mn_events_file, mn_fights_file, mn_index_file>>

\* main() is called: a first run, or one more.
MnStart ==
    /\ mn_pc \in {"not run", "exited", "completed"}
    /\ mn_resp' = FetchFailed
    /\ mn_events' = << >>
    /\ mn_i' = 0
    /\ mn_all_fights' = << >>
    /\ mn_log' = << >>
    /\ mn_fetches' = 0
    /\ mn_since' = 0
    /\ mn_pc' = "list"
    /\ UNCHANGED MnFiles
    /\ OnlyMn

\* get_soup: requests.get and raise_for_status, with the answer of the site.
GetSoupRequest ==
    /\ mn_pc \in {"list", "event"}
    /\ mn_fetches <= MaxEvents
    /\ mn_resp' \in IF mn_pc = "list" THEN ListResponses
                   ELSE EventResponses(mn_events[mn_i].url)
    /\ mn_fetches' = mn_fetches + 1
    /\ mn_since' = 0
    /\ mn_pc' = IF mn_pc = "list" THEN "list fetched" ELSE "event fetched"
    /\ UNCHANGED <<mn_events, mn_i, mn_all_fights, mn_log>>
    /\ UNCHANGED MnFiles
    /\ OnlyMn

\* get_soup: time.sleep(config.REQUEST_DELAY), the request having succeeded.
GetSoupDelay ==
    /\ mn_pc \in {"list fetched", "event fetched"}
    /\ mn_resp.ok
    /\ mn_since' = mn_since + REQUEST_DELAY
    /\ mn_pc' = IF mn_pc = "list fetched" THEN "list ready" ELSE "event ready"
    /\ UNCHANGED <<mn_resp, mn_events, mn_i, mn_all_fights, mn_log,
                   mn_fetches>>
    /\ UNCHANGED MnFiles
    /\ OnlyMn

\* Mutant of MnNoEvents: the empty list is saved before main returns.
MnNoEvents_SavesEmpty ==
    /\ \/ mn_pc = "list fetched" /\ ~mn_resp.ok
       \/ mn_pc = "list ready" /\ mn_resp.events = << >>
    /\ mn_events_file' = Written(<< >>)
    /\ mn_pc' = "exited"
    /\ UNCHANGED <<mn_resp, mn_events, mn_i, mn_all_fights, mn_log,
                   mn_fetches, mn_since, mn_fights_file, mn_index_file>>
    /\ OnlyMn

\* if not events: return -- the request failed or the page has no event.
MnNoEvents ==
    /\ \/ mn_pc = "list fetched" /\ ~mn_resp.ok
       \/ mn_pc = "list ready" /\ mn_resp.events = << >>
    /\ mn_pc' = "exited"
    /\ UNCHANGED <<mn_resp, mn_events, mn_i, mn_all_fights, mn_log,
                   mn_fetches, mn_since>>
    /\ UNCHANGED MnFiles
    /\ OnlyMn

\* data_manager.save_events_data(events); all_fights = []
MnSaveEvents ==
    /\ mn_pc = "list ready"
    /\ mn_resp.events # << >>
    /\ mn_events' = mn_resp.events
    /\ mn_events_file' = Written(mn_events')
    /\ mn_all_fights' = << >>
    /\ mn_i' = 1
    /\ mn_pc' = "event"
    /\ UNCHANGED <<mn_resp, mn_log, mn_fetches, mn_since,
                   mn_fights_file, mn_index_file>>
    /\ OnlyMn

\* Mutant of MnEventFailed: the failure ends the run.
MnEventFailed_Aborts ==
    /\ mn_pc = "event fetched"
    /\ ~mn_resp.ok
    /\ mn_log' = Append(mn_log, mn_resp)
    /\ mn_pc' = "exited"
    /\ UNCHANGED <<mn_resp, mn_events, mn_i, mn_all_fights,
                   mn_fetches, mn_since>>
    /\ UNCHANGED MnFiles
    /\ OnlyMn

\* scrape_event_fights returns [] for the page that could not be fetched.
MnEventFailed ==
    /\ mn_pc = "event fetched"
    /\ ~mn_resp.ok
    /\ mn_log' = Append(mn_log, mn_resp)
    /\ mn_pc' = "event done"
    /\ UNCHANGED <<mn_resp, mn_events, mn_i, mn_all_fights,
                   mn_fetches, mn_since>>
    /\ UNCHANGED MnFiles
    /\ OnlyMn

\* all_fights.extend(fights_in_event)
MnExtendFights ==
    /\ mn_pc = "event ready"
    /\ mn_all_fights' = mn_all_fights \o TagFights(mn_resp.fights, mn_events[mn_i])
    /\ mn_log' = Append(mn_log, mn_resp)
    /\ mn_pc' = "event done"
    /\ UNCHANGED <<mn_resp, mn_events, mn_i, mn_fetches, mn_since>>
    /\ UNCHANGED MnFiles
    /\ OnlyMn

\* Mutant of MnNextEvent: main does not sleep between two events.
MnNextEvent_NoSleep ==
    /\ mn_pc = "event done"
    /\ mn_i' = mn_i + 1
    /\ mn_pc' = IF mn_i < Len(mn_events) THEN "event" ELSE "save"
    /\ UNCHANGED <<mn_resp, mn_events, mn_all_fights, mn_log,
                   mn_fetches, mn_since>>
    /\ UNCHANGED MnFiles
    /\ OnlyMn

\* if i < len(events_to_scrape) - 1: time.sleep(config.REQUEST_DELAY)
MnNextEvent ==
    /\ mn_pc = "event done"
    /\ mn_i' = mn_i + 1
    /\ mn_since' = IF mn_i < Len(mn_events) THEN mn_since + REQUEST_DELAY
                   ELSE mn_since
    /\ mn_pc' = IF mn_i < Len(mn_events) THEN "event" ELSE "save"
    /\ UNCHANGED <<mn_resp, mn_events, mn_all_fights, mn_log,
                   mn_fetches>>
    /\ UNCHANGED MnFiles
    /\ OnlyMn

\* Mutant of MnSaveFights: the fights of this run are added to those of the
\* fights file.
MnSaveFights_Merge ==
    /\ mn_pc = "save"
    /\ mn_all_fights # << >>
    /\ mn_fights_file' =
           Written(load_fights_data(mn_fights_file) \o mn_all_fights)
    /\ mn_index_file' = IndexAfterRun(mn_all_fights, mn_fights_file', mn_index_file)
    /\ mn_pc' = "completed"
    /\ UNCHANGED <<mn_resp, mn_events, mn_i, mn_all_fights, mn_log,
                   mn_fetches, mn_since, mn_events_file>>
    /\ OnlyMn

\* data_manager.save_fights_data(all_fights), then the fighter index.
MnSaveFights ==
    /\ mn_pc = "save"
    /\ mn_all_fights # << >>
    /\ mn_fights_file' = Written(mn_all_fights)
    /\ mn_index_file' = IndexAfterRun(mn_all_fights, mn_fights_file', mn_index_file)
    /\ mn_pc' = "completed"
    /\ UNCHANGED <<mn_resp, mn_events, mn_i, mn_all_fights, mn_log,
                   mn_fetches, mn_since, mn_events_file>>
    /\ OnlyMn

\* No fight was scraped: the fighter index from the fights file, if any.
MnReindex ==
    /\ mn_pc = "save"
    /\ mn_all_fights = << >>
    /\ mn_index_file' = IndexAfterRun(mn_all_fights, mn_fights_file, mn_index_file)
    /\ mn_pc' = "completed"
    /\ UNCHANGED <<mn_resp, mn_events, mn_i, mn_all_fights, mn_log,
                   mn_fetches, mn_since, mn_events_file, mn_fights_file>>
    /\ OnlyMn

NextMn ==
    \/ MnStart
    \/ GetSoupRequest
    \/ GetSoupDelay
    \/ MnNoEvents
    \/ MnSaveEvents
    \/ MnEventFailed
    \/ MnExtendFights
    \/ MnNextEvent
    \/ MnSaveFights
    \/ MnReindex

----------------------------------------------------------------------------
(* Runs of main                                                            *)

RECURSIVE C12_Accumulated(_)
\* The fights of the pages that were fetched, among the first k of the run.
C12_Accumulated(k) ==
    IF k = 0 THEN << >>
    ELSE C12_Accumulated(k - 1) \o
         (IF mn_log[k].ok THEN TagFights(mn_log[k].fights, mn_events[k])
          ELSE << >>)

\* C12: the failure of a page fetch during a run of main yields an empty
\* result for that page only and never aborts the run: the remaining pages
\* are still fetched, and the results of the pages that did succeed are still
\* accumulated, saved and indexed.
C12_FetchFailureIsolated ==
    /\ mn_pc = "exited" => mn_events = << >> /\ mn_log = << >>
    /\ mn_pc \in {"event", "event fetched", "event ready"} =>
           Len(mn_log) = mn_i - 1
    /\ mn_pc = "event done" => Len(mn_log) = mn_i
    /\ mn_pc \in {"save", "completed"} => Len(mn_log) = Len(mn_events)
    /\ mn_all_fights = C12_Accumulated(Len(mn_log))
    /\ mn_pc = "completed" /\ mn_all_fights # << >> =>
           /\ Saved(mn_fights_file, mn_all_fights)
           /\ Saved(mn_index_file, BuildIndex(mn_all_fights, mn_index_file))

\* The first page of two could not be fetched, the second gave its fight.
C12_Witness ==
    /\ mn_pc = "completed"
    /\ Len(mn_events) = 2
    /\ ~mn_log[1].ok
    /\ mn_log[2].ok
    /\ Len(mn_all_fights) = 1
    /\ mn_all_fights[1].event_name = mn_events[2].name
    /\ mn_fights_file.data = mn_all_fights

\* C15: in every run, each page fetch of get_soup, whether it succeeds or
\* fails, is followed by the delay REQUEST_DELAY before the next fetch is
\* issued: no two fetches occur without a delay between them.
C15_DelayBetweenFetches ==
    [][mn_fetches' > mn_fetches /\ mn_fetches > 0 =>
           mn_since >= REQUEST_DELAY]_vars

\* A request is sent after one that failed.
C15_Witness ==
    /\ mn_pc = "event fetched"
    /\ mn_fetches = 3
    /\ ~mn_log[1].ok
    /\ mn_since = 0

C19_IndexOfPersistedFights ==
    mn_pc \in {"exited", "completed"} =>
        IF load_fights_data(mn_fights_file) = << >>
        THEN mn_index_file = AbsentFile(EmptyIndex)
        ELSE Saved(mn_index_file,
                   BuildIndex(load_fights_data(mn_fights_file), mn_index_file))

\* A run without fights of its own has indexed the fights of the file.
C19_Witness ==
    /\ mn_pc = "completed"
    /\ mn_all_fights = << >>
    /\ Len(load_fights_data(mn_fights_file)) = 2
    /\ DOMAIN mn_index_file.data = {<<"Lightweight">>}
    /\ Len(mn_index_file.data[<<"Lightweight">>]) = 3

\* C20: when the fetch of the event list fails or yields no event, the run
\* ends at once and leaves the persisted events, fights and fighter index as
\* they were; no event page is fetched in that run.
C20_NoEventsNothingDone ==
    [][/\ mn_pc' \in {"list", "list fetched", "list ready", "exited"} =>
              UNCHANGED MnFiles
       /\ \/ mn_pc = "list fetched" /\ ~mn_resp.ok
          \/ mn_pc = "list ready" /\ mn_resp.events = << >>
          => mn_pc' = "exited"
       /\ mn_pc' = "exited" =>
              /\ ~mn_resp'.ok \/ mn_resp'.events = << >>
              /\ mn_fetches' = 1
              /\ mn_log' = << >>]_vars

\* A run has ended on a failed fetch of the list; the files of an earlier
\* run are there.
C20_Witness ==
    /\ mn_pc = "exited"
    /\ ~mn_resp.ok
    /\ mn_fetches = 1
    /\ mn_events_file.state = "ok"
    /\ mn_fights_file.state = "ok"
    /\ mn_index_file.state = "ok"

----------------------------------------------------------------------------
(* Profile pages for the career statistics: an info box of at most one     *)
(* item, then a career statistics box of at most MaxStatItems items, alone *)
(* or after an untitled box.  The items have the labels of                 *)
(* career_stats_map, with and without their periods, labels that differ in *)
(* case or in a word, an item as the site writes it and one without colon. *)

MaxStatItems == 2

CareerItems ==
    { Labelled(<<"SLpM">>, <<"5.2">>),
      Labelled(<<"SLpM", ".">>, <<"4.0">>),
      Labelled(<<"Str", ".", " ", "Acc", ".">>, <<"48%">>),
      SiteItem(<<"SApM">>, <<"3.1">>),
      Labelled(<<"Str", ".", " ", "Def", ".">>, <<"55%">>),
      Labelled(<<"Str", ".", " ", "Def">>, <<"54%">>),
      Labelled(<<"TD", " ", " ", "Avg", ".">>, <<"1.9">>),
      Labelled(<<"TD", " ", "Acc", ".">>, <<"40%">>),
      Labelled(<<"TD", " ", "Def", ".">>, <<"95%">>),
      Labelled(<<"Sub", ".", " ", "Avg", ".">>, <<"0.5">>),
      Labelled(<<"slpm">>, <<"1.0">>),
      Labelled(<<"Wins">>, <<"27">>),
      << <<"SApM">> >> }

CareerBoxOf(items) ==
    [small_width |-> FALSE,
     title |-> <<"\n", "Career", " ", "Statistics", ":", "\n">>,
     items |-> items]

CareerPages ==
    {NoPage} \cup
    { Page(<<"\n", "Jon", " ", " ", "Jones", "\n">>,
           <<"\n", "Record", ":", " ", "27-1-0", "\n">>,
           <<InfoBox(info)>> \o other \o <<CareerBoxOf(items)>>) :
        info \in { << >>,
                   << Labelled(<<"Height">>, <<"6", "'", " ", "3", "\"">>) >>,
                   << Labelled(<<"Reach">>, <<"inf", "\"">>) >> },
        other \in { << >>, <<OtherBox>> },
        items \in SeqsUpTo(CareerItems, MaxStatItems) }

InitCs ==
    /\ pf_url = HrefAbs("a1")
    /\ pf_page \in CareerPages
    /\ pf_items = << >>
    /\ pf_i = 0
    /\ pf_stats = NoStats
    /\ pf_pc = "fetch"

----------------------------------------------------------------------------
(* The labels of the career statistics                                     *)

C17_KnownLabels ==
    { [label |-> <<"SLpM">>, field |-> "slpm"],
      [label |-> <<"Str", " ", "Acc">>, field |-> "str_acc"],
      [label |-> <<"SApM">>, field |-> "sapm"],
      [label |-> <<"Str", " ", "Def">>, field |-> "str_def"],
      [label |-> <<"TD", " ", "Avg">>, field |-> "td_avg"],
      [label |-> <<"TD", " ", "Acc">>, field |-> "td_acc"],
      [label |-> <<"TD", " ", "Def">>, field |-> "td_def"],
      [label |-> <<"Sub", " ", "Avg">>, field |-> "sub_avg"] }

\* The items of the career statistics box of the page.
C17_Items ==
    IF CareerStatsBox(pf_page.boxes) = 0 THEN << >>
    ELSE pf_page.boxes[CareerStatsBox(pf_page.boxes)].items

\* The label of an item that has one, its periods removed.
C17_Label(item) ==
    SelectSeq(C9_Key(item), LAMBDA c : c # ".")

\* The items whose label is the known label of the field.
C17_ItemsOf(field) ==
    { k \in 1..Len(C17_Items) :
        /\ C9_HasKey(C17_Items[k])
        /\ \E known \in C17_KnownLabels :
               known.field = field /\ known.label = C17_Label(C17_Items[k]) }

C17_StatFields == { known.field : known \in C17_KnownLabels }

\* C17: in scrape_fighter_profile a career-statistics item is stored under a
\* short field name exactly when its label, all periods removed, is one of
\* the eight known labels with its periods removed, so that "Str. Def." and
\* "Str. Def" both give str_def; an item with any other label adds no field
\* to the profile.
C17_KnownLabelsOnly ==
    pf_pc = "returned" =>
        LET info == C9_FoldInfo(ProfileHeader(pf_url, pf_page), pf_items)
        IN  /\ DOMAIN pf_stats =
                   DOMAIN info \cup
                   { field \in C17_StatFields : C17_ItemsOf(field) # {} }
            /\ \A field \in DOMAIN info \ C17_StatFields :
                   pf_stats[field] = info[field]
            /\ \A field \in C17_StatFields :
                   C17_ItemsOf(field) # {} =>
                       \E k \in C17_ItemsOf(field) :
                           /\ \A m \in C17_ItemsOf(field) : m <= k
                           /\ pf_stats[field] = C9_Value(C17_Items[k])

\* The box has Str. Def. with its final period and an unknown label:
\* str_def is stored and no field for Wins.
C17_Witness ==
    /\ pf_pc = "returned"
    /\ \E k \in 1..Len(C17_Items) :
           /\ C9_HasKey(C17_Items[k])
           /\ C9_Key(C17_Items[k]) = <<"Str", ".", " ", "Def", ".">>
    /\ \E k \in 1..Len(C17_Items) :
           /\ C9_HasKey(C17_Items[k])
           /\ C9_Key(C17_Items[k]) = <<"Wins">>
    /\ "str_def" \in DOMAIN pf_stats
    /\ pf_stats["str_def"] = <<"55%">>
    /\ DOMAIN pf_stats \cap C17_StatFields = {"str_def"}

----------------------------------------------------------------------------
(* src/model_trainer.py : train_models, and src/app.py : the models loaded *)
(* at startup and the predict endpoint.                                    *)
(*                                                                         *)
(* A label is one string.  A classifier is what it answers: a class among  *)
(* those it was trained on, or an exception.  feature_names is the list of *)
(* the column names of X_final.                                            *)

\* The labels of the model in the order of str (code points).
LabelOrder ==
    << "Blue", "DQ", "Decision - Majority", "Decision - Split",
       "Decision - Unanimous", "KO/TKO", "Red", "Submission" >>

LabelRank(label) == CHOOSE k \in 1..Len(LabelOrder) : LabelOrder[k] = label

\* LabelEncoder().fit_transform(column): classes_ is the distinct labels in
\* ascending order, and label classes_[i + 1] is encoded as i.
LabelClasses(column) ==
    [i \in 1..Cardinality(column) |->
        CHOOSE label \in column :
            Cardinality({ m \in column : LabelRank(m) < LabelRank(label) }) = i - 1]

winner_class_map == (0 :> "Red") @@ (1 :> "Blue")

finish_map ==
    (0 :> "KO/TKO") @@ (1 :> "Submission") @@ (2 :> "Decision - Unanimous") @@
    (3 :> "Decision - Split") @@ (4 :> "Decision - Majority") @@ (5 :> "DQ")

\* map.get(pred_class, f"Unknown ... {pred_class}")
MapGet(map, pred_class) ==
    IF pred_class \in DOMAIN map THEN map[pred_class] ELSE "Unknown Class"

\* predicted_winner_name
PredictedWinnerName(label, request) ==
    CASE label = "Red" -> request.r_fighter_name
      [] label = "Blue" -> request.b_fighter_name
      [] OTHER -> label

NoEncoders == [winner |-> << >>, method |-> << >>]
EmptyModelsDir == [winner |-> FALSE, finish |-> FALSE, feature_names |-> None]
NothingLoaded ==
    [model_fight_winner |-> FALSE, model_finish_prediction |-> FALSE,
     feature_names |-> << >>]
NoRequest == [r_fighter_name |-> "", b_fighter_name |-> "", features |-> 0]
NoResponse == [status_code |-> 0]

\* The response of predict.
PredictionResponse(request, winner_pred_class, finish_pred_class) ==
    [status_code |-> 200,
     r_fighter_name |-> request.r_fighter_name,
     b_fighter_name |-> request.b_fighter_name,
     predicted_winner |->
         PredictedWinnerName(MapGet(winner_class_map, winner_pred_class), request),
     winner_determination_class |-> MapGet(winner_class_map, winner_pred_class),
     winner_pred_class |-> winner_pred_class,
     finish_prediction |-> MapGet(finish_map, finish_pred_class),
     finish_pred_class |-> finish_pred_class]

HTTPException(status_code) == [status_code |-> status_code]

\* The classes a classifier trained on the encoded column can answer.
ClassesOf(classes) == 0..(Len(classes) - 1)

----------------------------------------------------------------------------
(* Datasets: no CSV file, or a winner column and a method column over the  *)
(* labels of the two maps, and 1..MaxFeatures feature columns.  Requests   *)
(* carry 0..MaxFeatures + 1 features.                                      *)

MaxFeatures == 2

WinnerLabels == {"Red", "Blue"}
MethodLabels == { finish_map[i] : i \in DOMAIN finish_map }

NoDataset == [csv |-> FALSE, winner |-> {}, method |-> {}, columns |-> 0]

Datasets ==
    {NoDataset} \cup
    { [csv |-> TRUE, winner |-> w, method |-> m, columns |-> n] :
        w \in SUBSET WinnerLabels \ {{}},
        m \in { c \in SUBSET MethodLabels : Cardinality(c) \in {1, 2, 6} },
        n \in 1..MaxFeatures }

Requests ==
    { [r_fighter_name |-> "Amanda Ribas", b_fighter_name |-> "Rose Namajunas",
       features |-> n] : n \in 0..(MaxFeatures + 1) }

InitAp ==
    /\ ap_data \in Datasets
    /\ ap_le = NoEncoders
    /\ ap_dir = EmptyModelsDir
    /\ ap_app = NothingLoaded
    /\ ap_request = NoRequest
    /\ ap_response = NoResponse
    /\ ap_invoked = {}
    /\ ap_pc = "dataset"

IdleAp ==
    /\ ap_data = NoDataset
    /\ ap_le = NoEncoders
    /\ ap_dir = EmptyModelsDir
    /\ ap_app = NothingLoaded
    /\ ap_request = NoRequest
    /\ ap_response = NoResponse
    /\ ap_invoked = {}
    /\ ap_pc = "idle"

\* train_models(): without the CSV file it returns; otherwise the object
\* columns are label-encoded, feature_names is saved, and each model is
\* trained and saved when its target has two classes or more.
TrainModels ==
    /\ ap_pc = "dataset"
    /\ IF ~ap_data.csv
       THEN UNCHANGED <<ap_le, ap_dir>>
       ELSE /\ ap_le' = [winner |-> LabelClasses(ap_data.winner),
                         method |-> LabelClasses(ap_data.method)]
            /\ ap_dir' = [winner |-> Len(ap_le'.winner) >= 2,
                          finish |-> Len(ap_le'.method) >= 2,
                          feature_names |-> [k \in 1..ap_data.columns |-> ToString(k)]]
    /\ ap_pc' = "trained"
    /\ UNCHANGED <<ap_data, ap_app, ap_request, ap_response, ap_invoked>>
    /\ OnlyAp

\* load_application_models(): each joblib.load gives the object of its file
\* or raises (the file is absent, or cannot be read).
LoadApplicationModels ==
    /\ ap_pc = "trained"
    /\ \E w \in {FALSE, ap_dir.winner}, f \in {FALSE, ap_dir.finish},
          n \in {<< >>, IF ap_dir.feature_names = None THEN << >>
                        ELSE ap_dir.feature_names} :
          ap_app' = [model_fight_winner |-> w, model_finish_prediction |-> f,
                     feature_names |-> n]
    /\ ap_pc' = "serving"
    /\ UNCHANGED <<ap_data, ap_le, ap_dir, ap_request, ap_response, ap_invoked>>
    /\ OnlyAp

\* if not model_fight_winner or not model_finish_prediction: 503
PredictModelsNotLoaded ==
    /\ ap_pc \in {"serving", "responded"}
    /\ ap_request' \in Requests
    /\ ~ap_app.model_fight_winner \/ ~ap_app.model_finish_prediction
    /\ ap_response' = HTTPException(503)
    /\ ap_invoked' = {}
    /\ ap_pc' = "responded"
    /\ UNCHANGED <<ap_data, ap_le, ap_dir, ap_app>>
    /\ OnlyAp

\* if not feature_names: 503
PredictNoFeatureNames ==
    /\ ap_pc \in {"serving", "responded"}
    /\ ap_request' \in Requests
    /\ ap_app.model_fight_winner /\ ap_app.model_finish_prediction
    /\ ap_app.feature_names = << >>
    /\ ap_response' = HTTPException(503)
    /\ ap_invoked' = {}
    /\ ap_pc' = "responded"
    /\ UNCHANGED <<ap_data, ap_le, ap_dir, ap_app>>
    /\ OnlyAp

\* if len(request_data.features) != len(feature_names): 400
PredictFeatureMismatch ==
    /\ ap_pc \in {"serving", "responded"}
    /\ ap_request' \in Requests
    /\ ap_app.model_fight_winner /\ ap_app.model_finish_prediction
    /\ ap_app.feature_names # << >>
    /\ ap_request'.features # Len(ap_app.feature_names)
    /\ ap_response' = HTTPException(400)
    /\ ap_invoked' = {}
    /\ ap_pc' = "responded"
    /\ UNCHANGED <<ap_data, ap_le, ap_dir, ap_app>>
    /\ OnlyAp

\* Mutant of PredictReturns: a vector longer than feature_names is accepted.
PredictReturns_Longer ==
    /\ ap_pc \in {"serving", "responded"}
    /\ ap_request' \in Requests
    /\ ap_app.model_fight_winner /\ ap_app.model_finish_prediction
    /\ ap_app.feature_names # << >>
    /\ ap_request'.features >= Len(ap_app.feature_names)
    /\ \E winner_pred_class \in ClassesOf(ap_le.winner),
          finish_pred_class \in ClassesOf(ap_le.method) :
          ap_response' = PredictionResponse(ap_request', winner_pred_class,
                                            finish_pred_class)
    /\ ap_invoked' = {"model_fight_winner", "model_finish_prediction"}
    /\ ap_pc' = "responded"
    /\ UNCHANGED <<ap_data, ap_le, ap_dir, ap_app>>
    /\ OnlyAp

\* The two classifiers answer and the response is returned.
PredictReturns ==
    /\ ap_pc \in {"serving", "responded"}
    /\ ap_request' \in Requests
    /\ ap_app.model_fight_winner /\ ap_app.model_finish_prediction
    /\ ap_app.feature_names # << >>
    /\ ap_request'.features = Len(ap_app.feature_names)
    /\ \E winner_pred_class \in ClassesOf(ap_le.winner),
          finish_pred_class \in ClassesOf(ap_le.method) :
          ap_response' = PredictionResponse(ap_request', winner_pred_class,
                                            finish_pred_class)
    /\ ap_invoked' = {"model_fight_winner", "model_finish_prediction"}
    /\ ap_pc' = "responded"
    /\ UNCHANGED <<ap_data, ap_le, ap_dir, ap_app>>
    /\ OnlyAp

\* A classifier raises: except Exception -> 500.
PredictFails ==
    /\ ap_pc \in {"serving", "responded"}
    /\ ap_request' \in Requests
    /\ ap_app.model_fight_winner /\ ap_app.model_finish_prediction
    /\ ap_app.feature_names # << >>
    /\ ap_request'.features = Len(ap_app.feature_names)
    /\ ap_response' = HTTPException(500)
    /\ ap_invoked' \in { {"model_fight_winner"},
                         {"model_fight_winner", "model_finish_prediction"} }
    /\ ap_pc' = "responded"
    /\ UNCHANGED <<ap_data, ap_le, ap_dir, ap_app>>
    /\ OnlyAp

NextAp ==
    \/ TrainModels
    \/ LoadApplicationModels
    \/ PredictModelsNotLoaded
    \/ PredictNoFeatureNames
    \/ PredictFeatureMismatch
    \/ PredictReturns
    \/ PredictFails

----------------------------------------------------------------------------
(* The predict endpoint and the feature vector                             *)

C13_Loaded ==
    /\ ap_app.model_fight_winner
    /\ ap_app.model_finish_prediction
    /\ ap_app.feature_names # << >>

\* C13: predict returns a prediction only when the length of the feature
\* vector equals the length of the persisted feature-name list; for any
\* other length it answers 400 and neither classifier is invoked; when a
\* classifier or the feature-name list is not loaded it answers 503, whatever
\* the length.
C13_LengthChecked ==
    ap_pc = "responded" =>
        /\ ap_response.status_code = 200 =>
               /\ C13_Loaded
               /\ ap_request.features = Len(ap_app.feature_names)
               /\ ap_app.feature_names = ap_dir.feature_names
        /\ C13_Loaded /\ ap_request.features # Len(ap_app.feature_names) =>
               ap_response.status_code = 400 /\ ap_invoked = {}
        /\ ~C13_Loaded => ap_response.status_code = 503 /\ ap_invoked = {}

\* A vector one longer than the list was refused with 400.
C13_Witness ==
    /\ ap_pc = "responded"
    /\ C13_Loaded
    /\ ap_request.features = Len(ap_app.feature_names) + 1
    /\ ap_response.status_code = 400
    /\ ap_invoked = {}

----------------------------------------------------------------------------
(* The two lookup tables and the encoding of the training step             *)

\* C14: the two lookup tables of the serving layer agree with the encoding
\* of the training step: for every class index i the label encoder gives to
\* a winner label, winner_class_map[i] is that label, and likewise
\* finish_map[i] for every method label; so predicted_winner is the name of
\* the red corner exactly when the model predicts the index training gave
\* to the red label.
C14_MapsFollowEncoding ==
    /\ \A i \in ClassesOf(ap_le.winner) :
           i \in DOMAIN winner_class_map /\ winner_class_map[i] = ap_le.winner[i + 1]
    /\ \A i \in ClassesOf(ap_le.method) :
           i \in DOMAIN finish_map /\ finish_map[i] = ap_le.method[i + 1]
    /\ ap_pc = "responded" /\ ap_response.status_code = 200 =>
           (ap_response.predicted_winner = ap_request.r_fighter_name
               <=> ap_le.winner[ap_response.winner_pred_class + 1] = "Red")

----------------------------------------------------------------------------
(* src/ufc_scraper/scraper.py : scrape_event_fights, the winner of one row *)
(* from the class attribute of the status icon as the markup writes it: a  *)
(* list of classes, in order, a class possibly more than once.             *)

\* Mutant of StatusClasses: only the first style class of the markup counts.
StatusClasses_FirstInMarkup(class_attr) ==
    LET styles == { k \in 1..Len(class_attr) : class_attr[k] # StatusBase }
    IN  IF styles = {} THEN {StatusBase}
        ELSE {StatusBase, class_attr[CHOOSE k \in styles :
                                         \A m \in styles : k <= m]}

\* status_classes = fighter1_status_tag.get('class', []), as far as the
\* tests `x in status_classes` see it.
StatusClasses(class_attr) == { class_attr[k] : k \in 1..Len(class_attr) }

\* cols[0].select_one("p:nth-of-type(1) i.b-fight-details__person-status"):
\* the icon is found when its class list has the class of the selector.
StatusTag(class_attr) ==
    IF \E k \in 1..Len(class_attr) : class_attr[k] = StatusBase
    THEN StatusClasses(class_attr)
    ELSE NoTag

\* winner, from the links of cols[1] and the icon of cols[0].
RowWinner(a_tags, class_attr) ==
    ResolveWinner(StatusTag(class_attr),
                  FighterName(a_tags, 1), FighterName(a_tags, 2))

----------------------------------------------------------------------------
(* Rows: no, one or two fighter links; class lists of at most MaxClasses   *)
(* classes over the selector's class, the four style classes and a fifth.  *)

MaxClasses == 3

IconClasses ==
    {StatusBase, StatusGreen, StatusRed, StatusBlue, StatusYellow, StatusGray}

InitRw ==
    /\ rw_a_tags \in SeqsUpTo({LinkJones, LinkKhabib}, 2)
    /\ rw_class \in SeqsUpTo(IconClasses, MaxClasses)
    /\ rw_winner = NotYet
    /\ rw_pc = "row"

IdleRw ==
    /\ rw_a_tags = << >>
    /\ rw_class = << >>
    /\ rw_winner = NotYet
    /\ rw_pc = "idle"

\* Winner determination based on CSS classes of the status icon.
DetermineWinner ==
    /\ rw_pc = "row"
    /\ rw_winner' = RowWinner(rw_a_tags, rw_class)
    /\ rw_pc' = "done"
    /\ UNCHANGED <<rw_a_tags, rw_class>>
    /\ OnlyRw

NextRw == DetermineWinner

----------------------------------------------------------------------------
(* The precedence of the status classes                                    *)

C21_Precedence == <<StatusGreen, StatusRed, StatusBlue, StatusYellow>>

\* The places of the precedence whose class the icon carries.
C21_Present ==
    { n \in 1..Len(C21_Precedence) :
        \E k \in 1..Len(rw_class) : rw_class[k] = C21_Precedence[n] }

\* The icon is there and carries a status class.
C21_HasStatus ==
    /\ \E k \in 1..Len(rw_class) : rw_class[k] = StatusBase
    /\ C21_Present # {}

\* The class that decides: the first of the precedence that is present.
C21_Deciding ==
    C21_Precedence[CHOOSE n \in C21_Present : \A m \in C21_Present : n <= m]

\* The name of fighter n, "N/A" when the link is absent.
C21_Name(n) ==
    IF n <= Len(rw_a_tags) THEN clean_text(rw_a_tags[n].text) ELSE <<"N/A">>

\* C21: when fighter 1's status icon carries one status class or more, the
\* winner is decided by the first of green, red, blue, yellow that is
\* present, in that order, whatever the order of the classes in the markup;
\* and when the deciding class is red and fighter 2's link is absent the
\* winner is the placeholder "N/A".
C21_FixedPrecedence ==
    (rw_pc = "done" /\ C21_HasStatus) =>
        /\ C21_Deciding = StatusGreen => rw_winner = C21_Name(1)
        /\ C21_Deciding = StatusRed => rw_winner = C21_Name(2)
        /\ C21_Deciding = StatusBlue => rw_winner = <<"Draw">>
        /\ C21_Deciding = StatusYellow => rw_winner = <<"No", " ", "Contest">>
        /\ (C21_Deciding = StatusRed /\ Len(rw_a_tags) < 2) =>
               rw_winner = <<"N/A">>

\* The markup has yellow before red, and one fighter link: red decides and
\* the winner is the placeholder.
C21_Witness ==
    /\ rw_pc = "done"
    /\ rw_class = <<StatusBase, StatusYellow, StatusRed>>
    /\ Len(rw_a_tags) = 1
    /\ rw_winner = <<"N/A">>

NextWc ==
    \/ NormalizeOnce
    \/ NormalizeAgain

InitSpecWc ==
    /\ InitWc
    /\ IdleEf
    /\ IdleFi
    /\ IdleUn
    /\ IdlePf
    /\ IdleEv
    /\ IdleId
    /\ IdleMn
    /\ IdleAp
    /\ IdleRw

SpecWc == InitSpecWc /\ [][NextWc]_vars

InitSpecEf ==
    /\ InitEf
    /\ IdleWc
    /\ IdleFi
    /\ IdleUn
    /\ IdlePf
    /\ IdleEv
    /\ IdleId
    /\ IdleMn
    /\ IdleAp
    /\ IdleRw

SpecEf == InitSpecEf /\ [][NextEf]_vars

InitSpecFi ==
    /\ InitFi
    /\ IdleWc
    /\ IdleEf
    /\ IdleUn
    /\ IdlePf
    /\ IdleEv
    /\ IdleId
    /\ IdleMn
    /\ IdleAp
    /\ IdleRw

SpecFi == InitSpecFi /\ [][NextFi]_vars

InitSpecUn ==
    /\ InitUn
    /\ IdleWc
    /\ IdleEf
    /\ IdleFi
    /\ IdlePf
    /\ IdleEv
    /\ IdleId
    /\ IdleMn
    /\ IdleAp
    /\ IdleRw

SpecUn == InitSpecUn /\ [][NextUn]_vars

InitSpecPf ==
    /\ InitPf
    /\ IdleWc
    /\ IdleEf
    /\ IdleFi
    /\ IdleUn
    /\ IdleEv
    /\ IdleId
    /\ IdleMn
    /\ IdleAp
    /\ IdleRw

SpecPf == InitSpecPf /\ [][NextPf]_vars

InitSpecEv ==
    /\ InitEv
    /\ IdleWc
    /\ IdleEf
    /\ IdleFi
    /\ IdleUn
    /\ IdlePf
    /\ IdleId
    /\ IdleMn
    /\ IdleAp
    /\ IdleRw

SpecEv == InitSpecEv /\ [][NextEv]_vars

InitSpecId ==
    /\ InitId
    /\ IdleWc
    /\ IdleEf
    /\ IdleFi
    /\ IdleUn
    /\ IdlePf
    /\ IdleEv
    /\ IdleMn
    /\ IdleAp
    /\ IdleRw

SpecId == InitSpecId /\ [][NextId]_vars

InitSpecMn ==
    /\ InitMn
    /\ IdleWc
    /\ IdleEf
    /\ IdleFi
    /\ IdleUn
    /\ IdlePf
    /\ IdleEv
    /\ IdleId
    /\ IdleAp
    /\ IdleRw

SpecMn == InitSpecMn /\ [][NextMn]_vars

InitSpecCs ==
    /\ InitCs
    /\ IdleWc
    /\ IdleEf
    /\ IdleFi
    /\ IdleUn
    /\ IdleEv
    /\ IdleId
    /\ IdleMn
    /\ IdleAp
    /\ IdleRw

SpecCs == InitSpecCs /\ [][NextPf]_vars

InitSpecAp ==
    /\ InitAp
    /\ IdleWc
    /\ IdleEf
    /\ IdleFi
    /\ IdleUn
    /\ IdlePf
    /\ IdleEv
    /\ IdleId
    /\ IdleMn
    /\ IdleRw

SpecAp == InitSpecAp /\ [][NextAp]_vars

InitSpecRw ==
    /\ InitRw
    /\ IdleWc
    /\ IdleEf
    /\ IdleFi
    /\ IdleUn
    /\ IdlePf
    /\ IdleEv
    /\ IdleId
    /\ IdleMn
    /\ IdleAp

SpecRw == InitSpecRw /\ [][NextRw]_vars

====
